---- MODULE Spec2Model ----
(***************************************************************************)
(* Model of the crockpot controller firmware (firmware/main):              *)
(*   crockpot.c   state core + safety control loop                         *)
(*   relay.c      relay actuation layer                                    *)
(*   temperature.c  MAX31855 thermocouple decoder                          *)
(*   main.c       start-up sequence                                        *)
(*                                                                         *)
(* Temperatures are integers in hundredths of a degree; the 14-bit         *)
(* thermocouple field counts quarter degrees Celsius, so                   *)
(*   temperature_c = 25 * tc_raw   and   temperature_f = 45 * tc_raw + 3200 *)
(* are exact.                                                              *)
(***************************************************************************)
EXTENDS Integers, FiniteSets, Sequences, TLC

(* ---- crockpot_state_t (crockpot.h) ---- *)
CROCKPOT_OFF == 0
CROCKPOT_WARM == 1
CROCKPOT_LOW == 2
CROCKPOT_HIGH == 3

States == {CROCKPOT_OFF, CROCKPOT_WARM, CROCKPOT_LOW, CROCKPOT_HIGH}

\* Values a caller can pass as crockpot_state_t: the four enumerators and one
\* value outside the enumeration (the `default:' branch of relay_apply_state).
INVALID_STATE == 4

StateArgs == States \cup {INVALID_STATE}

(* ---- relay_channel_t (relay.h) ---- *)
RELAY_CHANNEL_MAIN == 0
RELAY_CHANNEL_COUNT == 1

Channels == 0 .. (RELAY_CHANNEL_COUNT - 1)

\* relay.h: #define RELAY_ACTIVE_HIGH 1
RELAY_ACTIVE_HIGH == TRUE

\* the pin level that relay.c computes for a logical output
PinLevel(on) ==
    IF RELAY_ACTIVE_HIGH THEN (IF on THEN 1 ELSE 0) ELSE (IF on THEN 0 ELSE 1)

(* ---- constants of the control loop ---- *)
\* CROCKPOT_SAFETY_TEMP_F 300.0f, in hundredths of a degree Fahrenheit
CROCKPOT_SAFETY_TEMP_F == 30000

\* `if (error_count > 10)' in crockpot_control_task
ERROR_COUNT_LIMIT == 10

(* ---- bounds of the model ---- *)
\* largest value of uptime_seconds the model distinguishes
MaxUptime == 1

\* Execution contexts that call the public API of the state core
\* (telegram_task and display_task, created by app_main).
Callers == {"telegram", "display"}

CONTROL == "control"

NO_OWNER == "none"

\* no crockpot_set_state call in progress
NO_ARG == -1

\* a failed spi_device_transmit in place of a raw sample
SPI_FAIL == -1

(* ---- MAX31855 decoding (temperature.c) ---- *)
\* Raw 32-bit samples the sensor bus delivers in this model:
\*   tc_raw = 595 (148.75 C = 299.75 F), tc_raw = 596 (149.00 C = 300.20 F),
\*   and a fault frame (bit 16 set, open-circuit bit 0 set).
RAW_COOL == 595 * 262144

RAW_HOT == 596 * 262144

RAW_FAULT == 65537

RawSamples == {RAW_COOL, RAW_HOT, RAW_FAULT}

\* raw & 0x00010000
FaultBit(raw) == ((raw \div 65536) % 2) = 1

\* the thermocouple field taken as an unsigned number
TcRaw_unsigned(raw) == (raw \div 262144) % 16384

\* int16_t tc_raw = (raw >> 18) & 0x3FFF, sign-extended from bit 13
TcRaw(raw) ==
    LET v == (raw \div 262144) % 16384
    IN  IF (v \div 8192) % 2 = 1 THEN v - 16384 ELSE v

\* temperature_c_to_f on hundredths of a degree: c * 9 / 5 + 32
temperature_c_to_f(c) == ((c * 9) \div 5) + 3200

\* the reading temperature_read starts from: { 0.0f, 0.0f, false }
InvalidReading == [valid |-> FALSE, temperature_c |-> 0, temperature_f |-> 0]

\* the decoding part of temperature_read, applied to a received sample
Decode(raw) ==
    IF FaultBit(raw)
    THEN InvalidReading
    ELSE [valid |-> TRUE,
          temperature_c |-> 25 * TcRaw(raw),
          temperature_f |-> temperature_c_to_f(25 * TcRaw(raw))]

\* temperature_read handing on a valid reading of 0 C when the transaction
\* fails or the sensor is not initialised
temperature_read_zero(initialized, samples) ==
    IF ~initialized
    THEN {[valid |-> TRUE, temperature_c |-> 0, temperature_f |-> temperature_c_to_f(0)]}
    ELSE {IF raw = SPI_FAIL
          THEN [valid |-> TRUE, temperature_c |-> 0, temperature_f |-> temperature_c_to_f(0)]
          ELSE Decode(raw) : raw \in samples}

\* temperature_read: not initialised gives the invalid reading, otherwise the
\* bus delivers one of `samples' (SPI_FAIL stands for a failed transaction,
\* which also gives the invalid reading) and the sample is decoded.
temperature_read(initialized, samples) ==
    IF ~initialized
    THEN {InvalidReading}
    ELSE {IF raw = SPI_FAIL THEN InvalidReading ELSE Decode(raw) : raw \in samples}

(* ---- state ---- *)
VARIABLES
    main_pc,            \* position of app_main / crockpot_init
    mutex_owner,        \* holder of s_state_mutex, or NO_OWNER
    temp_initialized,   \* temperature.c s_initialized
    relay_initialized,  \* relay.c s_initialized
    s_relay_states,     \* relay.c s_relay_states[RELAY_CHANNEL_COUNT]
    gpio_level,         \* level driven on each relay pin
    gpio_faulty,        \* environment: gpio_set_level currently returns an error
    s_status,           \* crockpot.c s_status
    error_count,        \* static int error_count of crockpot_control_task
    ctrl_pc,            \* position of crockpot_control_task
    reading,            \* local `reading' of crockpot_control_task
    now,                \* whole seconds since s_boot_time_us (esp_timer_get_time)
    pc,                 \* position of each API caller
    arg,                \* argument of the running crockpot_set_state call
    ret,                \* return value of crockpot_set_state (meaningful at "ss_ret")
    status,             \* local `status' of the running crockpot_get_status call
    committed,          \* history: s_status when the mutex was last free
    streak,             \* history: consecutive faulty cycles ending non-OFF
    in_cs,              \* history: unlocked copy taken inside the current critical section
    fresh,              \* history: no write of s_status.state since the get_status call began
    unit                \* the test driver's record when a function is called directly

vars == <<main_pc, mutex_owner, temp_initialized, relay_initialized,
          s_relay_states, gpio_level, gpio_faulty, s_status, error_count,
          ctrl_pc, reading, now,
          pc, arg, ret, status, committed, streak, in_cs, fresh, unit>>

coreVars == <<mutex_owner, s_relay_states, gpio_level, s_status, error_count,
              committed>>

callerVars == <<pc, arg, ret, status, in_cs, fresh>>

ctrlVars == <<ctrl_pc, reading, now, streak>>

initVars == <<main_pc, temp_initialized, relay_initialized, gpio_faulty>>

\* no direct call is being driven
NoUnit == [op |-> "none"]

\* static initialiser of s_status
InitStatus ==
    [state |-> CROCKPOT_OFF, temperature_f |-> 0, uptime_seconds |-> 0,
     wifi_connected |-> FALSE, sensor_error |-> FALSE]

StatusFields == {"state", "temperature_f", "uptime_seconds",
                 "wifi_connected", "sensor_error"}

\* largest streak the history counter distinguishes
StreakCap == ERROR_COUNT_LIMIT + 1

Init ==
    /\ main_pc = "init_mutex"
    /\ mutex_owner = NO_OWNER
    /\ temp_initialized = FALSE
    /\ relay_initialized = FALSE
    /\ s_relay_states = [c \in Channels |-> FALSE]
    /\ gpio_level = [c \in Channels |-> PinLevel(FALSE)]
    /\ gpio_faulty = FALSE
    /\ s_status = InitStatus
    /\ error_count = 0
    /\ ctrl_pc = "not_created"
    /\ reading = InvalidReading
    /\ now = 0
    /\ pc = [t \in Callers |-> "not_created"]
    /\ arg = [t \in Callers |-> NO_ARG]
    /\ ret = [t \in Callers |-> FALSE]
    /\ status = [t \in Callers |-> InitStatus]
    /\ committed = InitStatus
    /\ streak = 0
    /\ in_cs = [t \in Callers |-> FALSE]
    /\ fresh = [t \in Callers |-> FALSE]
    /\ unit = NoUnit


(* ---- relay actuation layer (relay.c) ---- *)
\* gpio_set_level: the resulting pin levels; a failing call leaves the pin
gpio_set_level(channel, level) ==
    IF gpio_faulty THEN gpio_level ELSE [gpio_level EXCEPT ![channel] = level]

\* relay_set without its two argument checks
relay_set_unchecked(channel, on) ==
    [ok |-> TRUE,
     states |-> [c \in Channels |-> IF c = channel THEN on ELSE s_relay_states[c]],
     levels |-> gpio_level]

\* relay_set: the returned flag, the resulting s_relay_states and pin levels;
\* the result of gpio_set_level is not looked at
relay_set(channel, on) ==
    IF ~relay_initialized
    THEN [ok |-> FALSE, states |-> s_relay_states, levels |-> gpio_level]
    ELSE IF channel >= RELAY_CHANNEL_COUNT
    THEN [ok |-> FALSE, states |-> s_relay_states, levels |-> gpio_level]
    ELSE [ok |-> TRUE, states |-> [s_relay_states EXCEPT ![channel] = on],
          levels |-> gpio_set_level(channel, PinLevel(on))]

\* relay_get
relay_get(channel) ==
    IF channel >= RELAY_CHANNEL_COUNT THEN FALSE ELSE s_relay_states[channel]

\* relay_all_off driving every channel on
relay_all_off_inverted == [c \in Channels |-> TRUE]

\* relay_all_off refusing to act before relay_init, as relay_set does
relay_all_off_guarded ==
    IF relay_initialized THEN [c \in Channels |-> FALSE] ELSE s_relay_states

\* relay_all_off: the resulting s_relay_states (no initialised check, no lock)
relay_all_off == [c \in Channels |-> FALSE]

\* relay_all_off: the resulting pin levels
relay_all_off_levels ==
    [c \in Channels |-> gpio_set_level(c, PinLevel(FALSE))[c]]

\* relay_apply_state with the WARM case switching the relay off
relay_apply_state_warm_off(state) ==
    IF state \in {CROCKPOT_OFF, CROCKPOT_WARM}
    THEN relay_set(RELAY_CHANNEL_MAIN, FALSE)
    ELSE IF state \in {CROCKPOT_LOW, CROCKPOT_HIGH}
    THEN relay_set(RELAY_CHANNEL_MAIN, TRUE)
    ELSE [ok |-> FALSE, states |-> relay_all_off, levels |-> relay_all_off_levels]

\* relay_apply_state without a case for LOW
relay_apply_state_no_low(state) ==
    IF state = CROCKPOT_OFF
    THEN relay_set(RELAY_CHANNEL_MAIN, FALSE)
    ELSE IF state \in {CROCKPOT_WARM, CROCKPOT_HIGH}
    THEN relay_set(RELAY_CHANNEL_MAIN, TRUE)
    ELSE [ok |-> FALSE, states |-> relay_all_off, levels |-> relay_all_off_levels]

\* relay_apply_state switching the channel over on every OFF request
relay_apply_state_toggle_off(state) ==
    IF state = CROCKPOT_OFF
    THEN relay_set(RELAY_CHANNEL_MAIN, ~s_relay_states[RELAY_CHANNEL_MAIN])
    ELSE IF state \in {CROCKPOT_WARM, CROCKPOT_LOW, CROCKPOT_HIGH}
    THEN relay_set(RELAY_CHANNEL_MAIN, TRUE)
    ELSE [ok |-> FALSE, states |-> relay_all_off, levels |-> relay_all_off_levels]

\* relay_apply_state: the returned flag and the resulting s_relay_states
relay_apply_state(state) ==
    IF state = CROCKPOT_OFF
    THEN relay_set(RELAY_CHANNEL_MAIN, FALSE)
    ELSE IF state \in {CROCKPOT_WARM, CROCKPOT_LOW, CROCKPOT_HIGH}
    THEN relay_set(RELAY_CHANNEL_MAIN, TRUE)
    ELSE [ok |-> FALSE, states |-> relay_all_off, levels |-> relay_all_off_levels]

(* ---- start-up: app_main and crockpot_init ---- *)
\* s_state_mutex = xSemaphoreCreateMutex(); NULL makes crockpot_init fail
crockpot_init_mutex ==
    /\ main_pc = "init_mutex"
    /\ \E created \in BOOLEAN :
          main_pc' = IF created THEN "init_temp" ELSE "restart"
    /\ UNCHANGED <<temp_initialized, relay_initialized, gpio_faulty>>
    /\ UNCHANGED <<coreVars, ctrlVars, callerVars>>
    /\ UNCHANGED unit

\* crockpot_init returning false when temperature_init() fails
crockpot_init_temperature_fatal(outcomes) ==
    /\ main_pc = "init_temp"
    /\ \E ok \in outcomes :
          /\ temp_initialized' = ok
          /\ main_pc' = IF ok THEN "init_relay" ELSE "restart"
    /\ UNCHANGED <<relay_initialized, gpio_faulty>>
    /\ UNCHANGED <<coreVars, ctrlVars, callerVars>>
    /\ UNCHANGED unit

\* temperature_init(): a failure is logged and ignored
crockpot_init_temperature(outcomes) ==
    /\ main_pc = "init_temp"
    /\ \E ok \in outcomes : temp_initialized' = ok
    /\ main_pc' = "init_relay"
    /\ UNCHANGED <<relay_initialized, gpio_faulty>>
    /\ UNCHANGED <<coreVars, ctrlVars, callerVars>>
    /\ UNCHANGED unit

\* relay_init() recording every channel as on while it configures it
crockpot_init_relay_on ==
    /\ main_pc = "init_relay"
    /\ \E ok \in BOOLEAN :
          IF ok
          THEN /\ s_relay_states' = [c \in Channels |-> TRUE]
               /\ gpio_level' = [c \in Channels |-> PinLevel(TRUE)]
               /\ relay_initialized' = TRUE
               /\ main_pc' = "init_alloff"
          ELSE /\ UNCHANGED <<s_relay_states, gpio_level, relay_initialized>>
               /\ main_pc' = "restart"
    /\ UNCHANGED <<temp_initialized, gpio_faulty>>
    /\ UNCHANGED <<mutex_owner, s_status, error_count, committed>>
    /\ UNCHANGED <<ctrlVars, callerVars>>
    /\ UNCHANGED unit

\* crockpot_init carrying on after relay_init() returned false
crockpot_init_relay_continue ==
    /\ main_pc = "init_relay"
    /\ \E ok \in BOOLEAN :
          IF ok
          THEN /\ s_relay_states' = [c \in Channels |-> FALSE]
               /\ gpio_level' = relay_all_off_levels
               /\ relay_initialized' = TRUE
          ELSE UNCHANGED <<s_relay_states, gpio_level, relay_initialized>>
    /\ main_pc' = "init_alloff"
    /\ UNCHANGED <<temp_initialized, gpio_faulty>>
    /\ UNCHANGED <<mutex_owner, s_status, error_count, committed>>
    /\ UNCHANGED <<ctrlVars, callerVars>>
    /\ UNCHANGED unit

\* relay_init(): gpio_config failure returns false before s_initialized is set
crockpot_init_relay ==
    /\ main_pc = "init_relay"
    /\ \E ok \in BOOLEAN :
          IF ok
          THEN /\ s_relay_states' = [c \in Channels |-> FALSE]
               /\ gpio_level' = relay_all_off_levels
               /\ relay_initialized' = TRUE
               /\ main_pc' = "init_alloff"
          ELSE /\ UNCHANGED <<s_relay_states, gpio_level, relay_initialized>>
               /\ main_pc' = "restart"
    /\ UNCHANGED <<temp_initialized, gpio_faulty>>
    /\ UNCHANGED <<mutex_owner, s_status, error_count, committed>>
    /\ UNCHANGED <<ctrlVars, callerVars>>
    /\ UNCHANGED unit

\* relay_all_off() and `return true' at the end of crockpot_init
crockpot_init_all_off ==
    /\ main_pc = "init_alloff"
    /\ s_relay_states' = relay_all_off
    /\ gpio_level' = relay_all_off_levels
    /\ main_pc' = "create_tasks"
    /\ UNCHANGED <<temp_initialized, relay_initialized, gpio_faulty>>
    /\ UNCHANGED <<mutex_owner, s_status, error_count, committed>>
    /\ UNCHANGED <<ctrlVars, callerVars>>
    /\ UNCHANGED unit

\* xTaskCreate of the control, telegram and display tasks.  A failure to
\* create the control task restarts.  A telegram or display task that could
\* not be created behaves as one that never leaves "idle".
app_main_create_tasks ==
    /\ main_pc = "create_tasks"
    /\ \E created \in BOOLEAN :
          IF created
          THEN /\ main_pc' = "running"
               /\ ctrl_pc' = "c_read"
               /\ pc' = [t \in Callers |-> "idle"]
          ELSE /\ main_pc' = "restart"
               /\ UNCHANGED <<ctrl_pc, pc>>
    /\ UNCHANGED <<temp_initialized, relay_initialized, gpio_faulty, coreVars>>
    /\ UNCHANGED <<reading, now, streak, arg, ret, status, in_cs, fresh>>
    /\ UNCHANGED unit

\* esp_restart(): the chip reboots and static storage is initialised again
esp_restart ==
    /\ main_pc = "restart"
    /\ main_pc' = "init_mutex"
    /\ mutex_owner' = NO_OWNER
    /\ temp_initialized' = FALSE
    /\ relay_initialized' = FALSE
    /\ s_relay_states' = [c \in Channels |-> FALSE]
    /\ gpio_level' = [c \in Channels |-> PinLevel(FALSE)]
    /\ UNCHANGED gpio_faulty
    /\ s_status' = InitStatus
    /\ error_count' = 0
    /\ ctrl_pc' = "not_created"
    /\ reading' = InvalidReading
    /\ now' = 0
    /\ pc' = [t \in Callers |-> "not_created"]
    /\ arg' = [t \in Callers |-> NO_ARG]
    /\ ret' = [t \in Callers |-> FALSE]
    /\ status' = [t \in Callers |-> InitStatus]
    /\ committed' = InitStatus
    /\ streak' = 0
    /\ in_cs' = [t \in Callers |-> FALSE]
    /\ fresh' = [t \in Callers |-> FALSE]
    /\ UNCHANGED unit


(* ---- safety control loop: crockpot_control_task (crockpot.c) ---- *)
Running == main_pc = "running"

Min(a, b) == IF a < b THEN a ELSE b

\* the history counter at the end of a loop iteration; it distinguishes
\* streaks up to `cap'
StreakAfter(st, cap) ==
    IF ~reading.valid /\ st.state # CROCKPOT_OFF
    THEN Min(streak + 1, cap)
    ELSE 0

\* temperature_reading_t reading = temperature_read();
control_read(samples) ==
    /\ Running /\ ctrl_pc = "c_read"
    /\ reading' \in temperature_read(temp_initialized, samples)
    /\ ctrl_pc' = "c_take"
    /\ UNCHANGED <<initVars, coreVars, callerVars, now, streak>>
    /\ UNCHANGED unit

\* xSemaphoreTake(s_state_mutex, 100 ms) == pdTRUE
control_take ==
    /\ Running /\ ctrl_pc = "c_take"
    /\ mutex_owner = NO_OWNER
    /\ mutex_owner' = CONTROL
    /\ ctrl_pc' = "c_temp"
    /\ UNCHANGED <<initVars, s_relay_states, gpio_level, s_status, error_count, committed>>
    /\ UNCHANGED <<reading, now, streak, callerVars>>
    /\ UNCHANGED unit

\* a control loop that switches everything off when it cannot take the mutex
control_take_timeout_failsafe(cap) ==
    /\ Running /\ ctrl_pc = "c_take"
    /\ mutex_owner # NO_OWNER
    /\ ctrl_pc' = "c_delay_skipped"
    /\ reading' = InvalidReading
    /\ streak' = StreakAfter(s_status, cap)
    /\ s_status' = [s_status EXCEPT !.state = CROCKPOT_OFF]
    /\ s_relay_states' = relay_all_off
    /\ gpio_level' = relay_all_off_levels
    /\ UNCHANGED <<initVars, mutex_owner, error_count, committed, now, callerVars>>
    /\ UNCHANGED unit

\* xSemaphoreTake fails: another context held the mutex for the whole wait.
\* The body of the `if' is skipped and the iteration ends, `reading' with it.
control_take_timeout(cap) ==
    /\ Running /\ ctrl_pc = "c_take"
    /\ mutex_owner # NO_OWNER
    /\ ctrl_pc' = "c_delay_skipped"
    /\ reading' = InvalidReading
    /\ streak' = StreakAfter(s_status, cap)
    /\ UNCHANGED <<initVars, coreVars, now, callerVars>>
    /\ UNCHANGED unit

\* if (reading.valid) s_status.temperature_f = ...; else s_status.sensor_error = true;
control_update_temperature ==
    /\ Running /\ ctrl_pc = "c_temp"
    /\ IF reading.valid
       THEN /\ s_status' = [s_status EXCEPT !.temperature_f = reading.temperature_f]
            /\ ctrl_pc' = "c_err_clear"
       ELSE /\ s_status' = [s_status EXCEPT !.sensor_error = TRUE]
            /\ ctrl_pc' = "c_uptime"
    /\ UNCHANGED <<initVars, mutex_owner, s_relay_states, gpio_level, error_count, committed>>
    /\ UNCHANGED <<reading, now, streak, callerVars>>
    /\ UNCHANGED unit

\* s_status.sensor_error = false;  (valid reading)
control_clear_sensor_error ==
    /\ Running /\ ctrl_pc = "c_err_clear"
    /\ s_status' = [s_status EXCEPT !.sensor_error = FALSE]
    /\ ctrl_pc' = "c_uptime"
    /\ UNCHANGED <<initVars, mutex_owner, s_relay_states, gpio_level, error_count, committed>>
    /\ UNCHANGED <<reading, now, streak, callerVars>>
    /\ UNCHANGED unit

\* s_status.uptime_seconds = (now_us - s_boot_time_us) / 1000000;
control_update_uptime ==
    /\ Running /\ ctrl_pc = "c_uptime"
    /\ s_status' = [s_status EXCEPT !.uptime_seconds = now]
    /\ ctrl_pc' = "c_wifi"
    /\ UNCHANGED <<initVars, mutex_owner, s_relay_states, gpio_level, error_count, committed>>
    /\ UNCHANGED <<reading, now, streak, callerVars>>
    /\ UNCHANGED unit

\* s_status.wifi_connected = wifi_is_connected();
control_update_wifi(wifi) ==
    /\ Running /\ ctrl_pc = "c_wifi"
    /\ \E connected \in wifi :
          s_status' = [s_status EXCEPT !.wifi_connected = connected]
    /\ ctrl_pc' = "c_overtemp"
    /\ UNCHANGED <<initVars, mutex_owner, s_relay_states, gpio_level, error_count, committed>>
    /\ UNCHANGED <<reading, now, streak, callerVars>>
    /\ UNCHANGED unit

\* an over-temperature interlock with its limit at 350 F
OverTemperature_at_350(r) == r.valid /\ r.temperature_f > 35000

\* the condition of the over-temperature interlock
OverTemperature(r) == r.valid /\ r.temperature_f > CROCKPOT_SAFETY_TEMP_F

\* if (reading.valid && reading.temperature_f > CROCKPOT_SAFETY_TEMP_F)
\*     s_status.state = CROCKPOT_OFF;
control_overtemp_check ==
    /\ Running /\ ctrl_pc = "c_overtemp"
    /\ IF OverTemperature(reading)
       THEN /\ s_status' = [s_status EXCEPT !.state = CROCKPOT_OFF]
            /\ fresh' = [t \in Callers |-> FALSE]
            /\ ctrl_pc' = "c_overtemp_off"
       ELSE /\ UNCHANGED <<s_status, fresh>>
            /\ ctrl_pc' = "c_fault"
    /\ UNCHANGED <<initVars, mutex_owner, s_relay_states, gpio_level, error_count, committed>>
    /\ UNCHANGED <<reading, now, streak, pc, arg, ret, status, in_cs>>
    /\ UNCHANGED unit

\*     relay_all_off();   (over-temperature interlock)
control_overtemp_all_off ==
    /\ Running /\ ctrl_pc = "c_overtemp_off"
    /\ s_relay_states' = relay_all_off
    /\ gpio_level' = relay_all_off_levels
    /\ ctrl_pc' = "c_fault"
    /\ UNCHANGED <<initVars, mutex_owner, s_status, error_count, committed>>
    /\ UNCHANGED <<reading, now, streak, callerVars>>
    /\ UNCHANGED unit

\* a fault interlock that counts only while the WiFi link is up
FaultWhileHeating_online(st) ==
    st.sensor_error /\ st.state # CROCKPOT_OFF /\ st.wifi_connected

\* the condition under which the fault counter is incremented
FaultWhileHeating(st) == st.sensor_error /\ st.state # CROCKPOT_OFF

\* a fault interlock that trips one cycle later
FaultLimitExceeded_late(count) == count > ERROR_COUNT_LIMIT + 1

\* the condition under which the fault interlock trips
FaultLimitExceeded(count) == count > ERROR_COUNT_LIMIT

\* if (s_status.sensor_error && s_status.state != CROCKPOT_OFF) {
\*     error_count++;
\*     if (error_count > 10) { s_status.state = CROCKPOT_OFF;
control_fault_check ==
    /\ Running /\ ctrl_pc = "c_fault"
    /\ IF FaultWhileHeating(s_status)
       THEN /\ error_count' = error_count + 1
            /\ IF FaultLimitExceeded(error_count + 1)
               THEN /\ s_status' = [s_status EXCEPT !.state = CROCKPOT_OFF]
                    /\ fresh' = [t \in Callers |-> FALSE]
                    /\ ctrl_pc' = "c_fault_off"
               ELSE /\ UNCHANGED <<s_status, fresh>>
                    /\ ctrl_pc' = "c_give"
       ELSE /\ UNCHANGED <<error_count, s_status, fresh>>
            /\ ctrl_pc' = "c_give"
    /\ UNCHANGED <<initVars, mutex_owner, s_relay_states, gpio_level, committed>>
    /\ UNCHANGED <<reading, now, streak, pc, arg, ret, status, in_cs>>
    /\ UNCHANGED unit

\*         relay_all_off(); error_count = 0; } }
control_fault_all_off ==
    /\ Running /\ ctrl_pc = "c_fault_off"
    /\ s_relay_states' = relay_all_off
    /\ gpio_level' = relay_all_off_levels
    /\ error_count' = 0
    /\ ctrl_pc' = "c_give"
    /\ UNCHANGED <<initVars, mutex_owner, s_status, committed>>
    /\ UNCHANGED <<reading, now, streak, callerVars>>
    /\ UNCHANGED unit

\* xSemaphoreGive(s_state_mutex); the iteration ends, `reading' with it
control_give(cap) ==
    /\ Running /\ ctrl_pc = "c_give"
    /\ mutex_owner' = NO_OWNER
    /\ committed' = s_status
    /\ streak' = StreakAfter(s_status, cap)
    /\ in_cs' = [t \in Callers |-> FALSE]
    /\ ctrl_pc' = "c_delay"
    /\ reading' = InvalidReading
    /\ UNCHANGED <<initVars, s_relay_states, gpio_level, s_status, error_count>>
    /\ UNCHANGED <<now, pc, arg, ret, status, fresh>>
    /\ UNCHANGED unit

\* vTaskDelayUntil(&last_wake_time, 1000 ms): one period of
\* CROCKPOT_CONTROL_INTERVAL_MS passes (seconds above MaxUptime are folded
\* into MaxUptime)
control_delay ==
    /\ Running /\ ctrl_pc \in {"c_delay", "c_delay_skipped"}
    /\ ctrl_pc' = "c_read"
    /\ now' = Min(now + 1, MaxUptime)
    /\ UNCHANGED <<initVars, coreVars, callerVars, reading, streak>>
    /\ UNCHANGED unit


(* ---- state core: crockpot_get_status (crockpot.c) ---- *)
\* a front end calls crockpot_get_status()
get_status_call(t) ==
    /\ Running /\ pc[t] = "idle"
    /\ pc' = [pc EXCEPT ![t] = "gs_take"]
    /\ fresh' = [fresh EXCEPT ![t] = TRUE]
    /\ UNCHANGED <<initVars, coreVars, ctrlVars, arg, ret, status, in_cs>>
    /\ UNCHANGED unit

\* xSemaphoreTake(s_state_mutex, 100 ms) == pdTRUE
get_status_take(t) ==
    /\ Running /\ pc[t] = "gs_take"
    /\ mutex_owner = NO_OWNER
    /\ mutex_owner' = t
    /\ pc' = [pc EXCEPT ![t] = "gs_copy"]
    /\ UNCHANGED <<initVars, s_relay_states, gpio_level, s_status, error_count, committed>>
    /\ UNCHANGED <<ctrlVars, arg, ret, status, in_cs, fresh>>
    /\ UNCHANGED unit

\* status = s_status; xSemaphoreGive(s_state_mutex);
get_status_copy_give(t) ==
    /\ Running /\ pc[t] = "gs_copy"
    /\ status' = [status EXCEPT ![t] = s_status]
    /\ mutex_owner' = NO_OWNER
    /\ committed' = s_status
    /\ in_cs' = [u \in Callers |-> FALSE]
    /\ pc' = [pc EXCEPT ![t] = "gs_ret"]
    /\ UNCHANGED <<initVars, s_relay_states, gpio_level, s_status, error_count>>
    /\ UNCHANGED <<ctrlVars, arg, ret, fresh>>
    /\ UNCHANGED unit

\* xSemaphoreTake fails: another context held the mutex for the whole wait
get_status_take_timeout(t) ==
    /\ Running /\ pc[t] = "gs_take"
    /\ mutex_owner \notin {NO_OWNER, t}
    /\ pc' = [pc EXCEPT ![t] = "gs_unlocked"]
    /\ UNCHANGED <<initVars, coreVars, ctrlVars, arg, ret, status, in_cs, fresh>>
    /\ UNCHANGED unit

\* else-branch `status = s_status;' without the mutex.  The structure copy
\* races with the writers of s_status: it is modelled as a copy of the whole
\* structure followed by a second pass that reads any subset of the fields
\* again, so the result may combine fields from two instants.
get_status_unlocked_copy(t) ==
    /\ Running /\ pc[t] = "gs_unlocked"
    /\ status' = [status EXCEPT ![t] = s_status]
    /\ in_cs' = [in_cs EXCEPT ![t] = (mutex_owner # NO_OWNER)]
    /\ pc' = [pc EXCEPT ![t] = "gs_unlocked2"]
    /\ UNCHANGED <<initVars, coreVars, ctrlVars, arg, ret, fresh>>
    /\ UNCHANGED unit

\* the fields of `later' taken from s_status, the others from `first'
MixedCopy(first, later) ==
    [f \in StatusFields |-> IF f \in later THEN s_status[f] ELSE first[f]]

\* every result of a second pass over a first copy
MixedCopies(first) ==
    {MixedCopy(first, later) : later \in SUBSET StatusFields}

\* second pass of the unlocked structure copy
get_status_unlocked_copy2(t) ==
    /\ Running /\ pc[t] = "gs_unlocked2"
    /\ \E copy \in MixedCopies(status[t]) :
          status' = [status EXCEPT ![t] = copy]
    /\ pc' = [pc EXCEPT ![t] = "gs_ret"]
    /\ UNCHANGED <<initVars, coreVars, ctrlVars, arg, ret, in_cs, fresh>>
    /\ UNCHANGED unit

\* return status;
get_status_return(t) ==
    /\ Running /\ pc[t] = "gs_ret"
    /\ pc' = [pc EXCEPT ![t] = "idle"]
    /\ status' = [status EXCEPT ![t] = InitStatus]
    /\ in_cs' = [in_cs EXCEPT ![t] = FALSE]
    /\ fresh' = [fresh EXCEPT ![t] = FALSE]
    /\ UNCHANGED <<initVars, coreVars, ctrlVars, arg, ret>>
    /\ UNCHANGED unit

(* ---- state core: crockpot_set_state (crockpot.c) ---- *)
\* a front end calls crockpot_set_state(s)
set_state_call(t, args) ==
    /\ Running /\ pc[t] = "idle"
    /\ \E s \in args : arg' = [arg EXCEPT ![t] = s]
    /\ pc' = [pc EXCEPT ![t] = "ss_take"]
    /\ UNCHANGED <<initVars, coreVars, ctrlVars, ret, status, in_cs, fresh>>
    /\ UNCHANGED unit

\* xSemaphoreTake(s_state_mutex, 100 ms) succeeds
set_state_take(t) ==
    /\ Running /\ pc[t] = "ss_take"
    /\ mutex_owner = NO_OWNER
    /\ mutex_owner' = t
    /\ pc' = [pc EXCEPT ![t] = "ss_apply"]
    /\ UNCHANGED <<initVars, s_relay_states, gpio_level, s_status, error_count, committed>>
    /\ UNCHANGED <<ctrlVars, arg, ret, status, in_cs, fresh>>
    /\ UNCHANGED unit

\* crockpot_set_state going on to relay_apply_state after a failed xSemaphoreTake
SetStateAfterTimeout_ignored == "ss_apply"

\* where crockpot_set_state continues when xSemaphoreTake fails: return false
SetStateAfterTimeout == "ss_ret"

\* crockpot_set_state applying the state to the relay before it gives up
set_state_take_timeout_applied(t) ==
    /\ Running /\ pc[t] = "ss_take"
    /\ mutex_owner \notin {NO_OWNER, t}
    /\ pc' = [pc EXCEPT ![t] = "ss_ret"]
    /\ ret' = [ret EXCEPT ![t] = FALSE]
    /\ arg' = [arg EXCEPT ![t] = NO_ARG]
    /\ s_relay_states' = relay_apply_state(arg[t]).states
    /\ gpio_level' = relay_apply_state(arg[t]).levels
    /\ UNCHANGED <<initVars, mutex_owner, s_status, error_count, committed>>
    /\ UNCHANGED <<ctrlVars, status, in_cs, fresh>>
    /\ UNCHANGED unit

\* xSemaphoreTake(...) != pdTRUE: return false
set_state_take_timeout(t) ==
    /\ Running /\ pc[t] = "ss_take"
    /\ mutex_owner \notin {NO_OWNER, t}
    /\ pc' = [pc EXCEPT ![t] = SetStateAfterTimeout]
    /\ ret' = [ret EXCEPT ![t] = FALSE]
    /\ arg' = [arg EXCEPT ![t] = IF SetStateAfterTimeout = "ss_ret" THEN NO_ARG ELSE arg[t]]
    /\ UNCHANGED <<initVars, coreVars, ctrlVars, status, in_cs, fresh>>
    /\ UNCHANGED unit

\* crockpot_set_state refusing to energise while the snapshot shows a sensor
\* error or a temperature above the limit
set_state_apply_interlocked(t) ==
    /\ Running /\ pc[t] = "ss_apply"
    /\ IF s_status.sensor_error \/ s_status.temperature_f > CROCKPOT_SAFETY_TEMP_F
          THEN /\ pc' = [pc EXCEPT ![t] = "ss_give_fail"]
               /\ UNCHANGED <<s_relay_states, gpio_level>>
          ELSE /\ s_relay_states' = relay_apply_state(arg[t]).states
               /\ gpio_level' = relay_apply_state(arg[t]).levels
               /\ pc' = [pc EXCEPT ![t] =
                            IF relay_apply_state(arg[t]).ok THEN "ss_write" ELSE "ss_give_fail"]
    /\ UNCHANGED <<initVars, mutex_owner, s_status, error_count, committed>>
    /\ UNCHANGED <<ctrlVars, arg, ret, status, in_cs, fresh>>
    /\ UNCHANGED unit

\* if (!relay_apply_state(state)) ...
set_state_apply(t) ==
    /\ Running /\ pc[t] = "ss_apply"
    /\ s_relay_states' = relay_apply_state(arg[t]).states
    /\ gpio_level' = relay_apply_state(arg[t]).levels
    /\ pc' = [pc EXCEPT ![t] =
                 IF relay_apply_state(arg[t]).ok THEN "ss_write" ELSE "ss_give_fail"]
    /\ UNCHANGED <<initVars, mutex_owner, s_status, error_count, committed>>
    /\ UNCHANGED <<ctrlVars, arg, ret, status, in_cs, fresh>>
    /\ UNCHANGED unit

\* s_status.state = state;
set_state_write(t) ==
    /\ Running /\ pc[t] = "ss_write"
    /\ s_status' = [s_status EXCEPT !.state = arg[t]]
    /\ fresh' = [u \in Callers |-> FALSE]
    /\ pc' = [pc EXCEPT ![t] = "ss_give"]
    /\ UNCHANGED <<initVars, mutex_owner, s_relay_states, gpio_level, error_count, committed>>
    /\ UNCHANGED <<ctrlVars, arg, ret, status, in_cs>>
    /\ UNCHANGED unit

\* crockpot_set_state returning false after a failed actuation without
\* giving the mutex back
set_state_give_leaky(t) ==
    /\ Running /\ pc[t] \in {"ss_give", "ss_give_fail"}
    /\ mutex_owner' = IF pc[t] = "ss_give" THEN NO_OWNER ELSE mutex_owner
    /\ committed' = IF pc[t] = "ss_give" THEN s_status ELSE committed
    /\ in_cs' = [u \in Callers |-> FALSE]
    /\ ret' = [ret EXCEPT ![t] = (pc[t] = "ss_give")]
    /\ arg' = [arg EXCEPT ![t] = NO_ARG]
    /\ pc' = [pc EXCEPT ![t] = "ss_ret"]
    /\ UNCHANGED <<initVars, s_relay_states, gpio_level, s_status, error_count>>
    /\ UNCHANGED <<ctrlVars, status, fresh>>
    /\ UNCHANGED unit

\* xSemaphoreGive(s_state_mutex); return true / return false
set_state_give(t) ==
    /\ Running /\ pc[t] \in {"ss_give", "ss_give_fail"}
    /\ mutex_owner' = NO_OWNER
    /\ committed' = s_status
    /\ in_cs' = [u \in Callers |-> FALSE]
    /\ ret' = [ret EXCEPT ![t] = (pc[t] = "ss_give")]
    /\ arg' = [arg EXCEPT ![t] = NO_ARG]
    /\ pc' = [pc EXCEPT ![t] = "ss_ret"]
    /\ UNCHANGED <<initVars, s_relay_states, gpio_level, s_status, error_count>>
    /\ UNCHANGED <<ctrlVars, status, fresh>>
    /\ UNCHANGED unit

\* the caller continues after crockpot_set_state returned
set_state_return(t) ==
    /\ Running /\ pc[t] = "ss_ret"
    /\ pc' = [pc EXCEPT ![t] = "idle"]
    /\ ret' = [ret EXCEPT ![t] = FALSE]
    /\ UNCHANGED <<initVars, coreVars, ctrlVars, arg, status, in_cs, fresh>>
    /\ UNCHANGED unit

(* ---- local UI: process_buttons (display.c) ---- *)
\* UP that wraps from HIGH to OFF
StepUp_wrapping(state) ==
    CASE state = CROCKPOT_OFF  -> CROCKPOT_WARM
      [] state = CROCKPOT_WARM -> CROCKPOT_LOW
      [] state = CROCKPOT_LOW  -> CROCKPOT_HIGH
      [] state = CROCKPOT_HIGH -> CROCKPOT_OFF
      [] OTHER                 -> state

\* the switch of the UP button: OFF -> WARM -> LOW -> HIGH, stay at max
StepUp(state) ==
    CASE state = CROCKPOT_OFF  -> CROCKPOT_WARM
      [] state = CROCKPOT_WARM -> CROCKPOT_LOW
      [] state = CROCKPOT_LOW  -> CROCKPOT_HIGH
      [] state = CROCKPOT_HIGH -> CROCKPOT_HIGH
      [] OTHER                 -> state

\* the switch of the DOWN button: HIGH -> LOW -> WARM -> OFF, stay at off
StepDown(state) ==
    CASE state = CROCKPOT_HIGH -> CROCKPOT_LOW
      [] state = CROCKPOT_LOW  -> CROCKPOT_WARM
      [] state = CROCKPOT_WARM -> CROCKPOT_OFF
      [] state = CROCKPOT_OFF  -> CROCKPOT_OFF
      [] OTHER                 -> state

\* the SELECT button: OFF goes to LOW, anything else to OFF
SelectToggle(state) ==
    IF state = CROCKPOT_OFF THEN CROCKPOT_LOW ELSE CROCKPOT_OFF

\* new_state of process_buttons: the three flags are handled in the order
\* UP, DOWN, SELECT, each from status.state, a later one overriding
process_buttons_new_state(state, up, down, select) ==
    IF select THEN SelectToggle(state)
    ELSE IF down THEN StepDown(state)
    ELSE IF up THEN StepUp(state)
    ELSE state

\* the display task's record of the button pass it is handling
ButtonUnit(up, down, select, seen, new_state) ==
    [op |-> "buttons", up |-> up, down |-> down, select |-> select,
     seen |-> seen, new_state |-> new_state]

\* process_buttons after its crockpot_get_status() has returned: the flags
\* the ISR has set are consumed, new_state is computed from status.state,
\* and crockpot_set_state(new_state) is called if it differs
process_buttons_decide(t, up, down, select) ==
    /\ Running /\ pc[t] = "gs_ret"
    /\ unit' = ButtonUnit(up, down, select, status[t].state,
                          process_buttons_new_state(status[t].state, up, down, select))
    /\ IF process_buttons_new_state(status[t].state, up, down, select) # status[t].state
       THEN /\ arg' = [arg EXCEPT ![t] =
                          process_buttons_new_state(status[t].state, up, down, select)]
            /\ pc' = [pc EXCEPT ![t] = "ss_take"]
       ELSE /\ arg' = arg
            /\ pc' = [pc EXCEPT ![t] = "idle"]
    /\ status' = [status EXCEPT ![t] = InitStatus]
    /\ in_cs' = [in_cs EXCEPT ![t] = FALSE]
    /\ fresh' = [fresh EXCEPT ![t] = FALSE]
    /\ UNCHANGED <<initVars, coreVars, ctrlVars, ret>>

(* ---- environment of the actuation layer ---- *)
\* the GPIO driver starts or stops rejecting gpio_set_level calls
gpio_driver_fault ==
    /\ gpio_faulty' = ~gpio_faulty
    /\ UNCHANGED <<main_pc, temp_initialized, relay_initialized>>
    /\ UNCHANGED <<coreVars, ctrlVars, callerVars>>
    /\ UNCHANGED unit

(* ---- the system ---- *)
\* app_main up to the creation of the tasks; `tempInit' are the outcomes of
\* temperature_init
StartUp(tempInit) ==
    \/ crockpot_init_mutex
    \/ crockpot_init_temperature(tempInit)
    \/ crockpot_init_relay
    \/ crockpot_init_all_off
    \/ app_main_create_tasks
    \/ esp_restart

\* crockpot_control_task; `samples' is what the sensor bus delivers, `wifi'
\* what wifi_is_connected returns, `cap' the longest streak the history
\* counter distinguishes
ControlTask(samples, wifi, cap) ==
    \/ control_read(samples)
    \/ control_take
    \/ control_take_timeout(cap)
    \/ control_update_temperature
    \/ control_clear_sensor_error
    \/ control_update_uptime
    \/ control_update_wifi(wifi)
    \/ control_overtemp_check
    \/ control_overtemp_all_off
    \/ control_fault_check
    \/ control_fault_all_off
    \/ control_give(cap)
    \/ control_delay

\* crockpot_set_state called by the contexts `setters' with arguments `args'
SetState(setters, args) ==
    \/ \E t \in setters : set_state_call(t, args)
    \/ \E t \in setters : set_state_take(t)
    \/ \E t \in setters : set_state_take_timeout(t)
    \/ \E t \in setters : set_state_apply(t)
    \/ \E t \in setters : set_state_write(t)
    \/ \E t \in setters : set_state_give(t)
    \/ \E t \in setters : set_state_return(t)

\* crockpot_get_status called by the contexts `getters'
GetStatus(getters) ==
    \/ \E t \in getters : get_status_call(t)
    \/ \E t \in getters : get_status_take(t)
    \/ \E t \in getters : get_status_copy_give(t)
    \/ \E t \in getters : get_status_take_timeout(t)
    \/ \E t \in getters : get_status_unlocked_copy(t)
    \/ \E t \in getters : get_status_unlocked_copy2(t)
    \/ \E t \in getters : get_status_return(t)

\* Spec: the telegram task sets the state (to OFF, to HIGH, or to a value
\* outside the enumeration), the display task reads the status, the sensor
\* delivers an over-temperature sample or a fault frame.
Next ==
    \/ StartUp({TRUE})
    \/ ControlTask({RAW_HOT, RAW_FAULT}, {FALSE}, 0)
    \/ SetState({"telegram"}, {CROCKPOT_OFF, CROCKPOT_HIGH, INVALID_STATE})
    \/ GetStatus({"display"})

Spec == Init /\ [][Next]_vars

\* SpecStates: as Spec, with each of the four states as argument.
NextStates ==
    \/ StartUp({TRUE})
    \/ ControlTask({RAW_HOT, RAW_FAULT}, {FALSE}, 0)
    \/ SetState({"telegram"}, States)
    \/ GetStatus({"display"})

SpecStates == Init /\ [][NextStates]_vars

\* SpecLoop: the control loop over long runs.  The telegram task switches
\* between OFF and HIGH, the sensor delivers a sample below the limit, one
\* above it, or a fault frame, and the history counter follows the streaks.
NextLoop ==
    \/ StartUp({TRUE})
    \/ ControlTask({RAW_COOL, RAW_HOT, RAW_FAULT}, {FALSE}, StreakCap)
    \/ SetState({"telegram"}, {CROCKPOT_OFF, CROCKPOT_HIGH})

SpecLoop == Init /\ [][NextLoop]_vars

\* SpecDegraded: start-up with a temperature_init that succeeds or fails,
\* followed by the control loop and a telegram task switching OFF and HIGH.
NextDegraded ==
    \/ StartUp(BOOLEAN)
    \/ ControlTask({RAW_HOT, RAW_FAULT}, {FALSE}, 0)
    \/ SetState({"telegram"}, {CROCKPOT_OFF, CROCKPOT_HIGH})

SpecDegraded == Init /\ [][NextDegraded]_vars

\* SpecGpio: as SpecDegraded with a working sensor, and a GPIO driver that
\* may reject pin writes.
NextGpio ==
    \/ StartUp({TRUE})
    \/ ControlTask({RAW_HOT, RAW_FAULT}, {FALSE}, 0)
    \/ SetState({"telegram"}, {CROCKPOT_OFF, CROCKPOT_HIGH})
    \/ gpio_driver_fault

SpecGpio == Init /\ [][NextGpio]_vars

\* SpecWifi: as SpecGpio with a sound GPIO driver, and a WiFi link that is
\* up or down each time the control loop asks wifi_is_connected().
NextWifi ==
    \/ StartUp({TRUE})
    \/ ControlTask({RAW_HOT, RAW_FAULT}, BOOLEAN, 0)
    \/ SetState({"telegram"}, {CROCKPOT_OFF, CROCKPOT_HIGH})

SpecWifi == Init /\ [][NextWifi]_vars

\* SpecSpi: as SpecDegraded, with a sensor bus on which a transaction
\* either delivers a sample above the limit or fails.
NextSpi ==
    \/ StartUp(BOOLEAN)
    \/ ControlTask({RAW_HOT, SPI_FAIL}, {FALSE}, 0)
    \/ SetState({"telegram"}, {CROCKPOT_OFF, CROCKPOT_HIGH})

SpecSpi == Init /\ [][NextSpi]_vars

\* SpecButtons: the display task polls its buttons (any of the three may
\* have been pressed since the last pass) beside the control loop, whose
\* sensor delivers an over-temperature sample or a fault frame.
NextButtons ==
    \/ StartUp({TRUE})
    \/ ControlTask({RAW_HOT, RAW_FAULT}, {FALSE}, 0)
    \/ get_status_call("display")
    \/ get_status_take("display")
    \/ get_status_copy_give("display")
    \/ get_status_take_timeout("display")
    \/ get_status_unlocked_copy("display")
    \/ get_status_unlocked_copy2("display")
    \/ \E up \in BOOLEAN, down \in BOOLEAN, select \in BOOLEAN :
          process_buttons_decide("display", up, down, select)
    \/ set_state_take("display")
    \/ set_state_take_timeout("display")
    \/ set_state_apply("display")
    \/ set_state_write("display")
    \/ set_state_give("display")
    \/ set_state_return("display")

SpecButtons == Init /\ [][NextButtons]_vars

\* the control loop with a sensor whose every sample is valid and above the
\* limit (the fault interlock then never trips)
ControlHot ==
    \/ control_read({RAW_HOT})
    \/ control_take
    \/ control_take_timeout(0)
    \/ control_update_temperature
    \/ control_clear_sensor_error
    \/ control_update_uptime
    \/ control_update_wifi({FALSE})
    \/ control_overtemp_check
    \/ control_overtemp_all_off
    \/ control_fault_check
    \/ control_give(0)
    \/ control_delay

\* SpecHot: the control loop with such a sensor, beside a telegram task
\* switching OFF and HIGH.  The control task is scheduled fairly: it always
\* takes its next step (vTaskDelayUntil and the bounded xSemaphoreTake
\* return), and if it asks for the mutex again and again it is not locked
\* out forever: some xSemaphoreTake of it succeeds, again and again.
NextHot ==
    \/ StartUp({TRUE})
    \/ ControlHot
    \/ SetState({"telegram"}, {CROCKPOT_OFF, CROCKPOT_HIGH})

FairHot ==
    /\ WF_vars(ControlHot)
    /\ ([]<>(ctrl_pc = "c_take")) => []<><<control_take>>_vars

SpecHot == Init /\ [][NextHot]_vars /\ FairHot

(* ---- the relay layer called directly ---- *)
\* relay.c on its own: its variables hold any values, another context may
\* hold s_state_mutex, the snapshot holds any state
InitRelay ==
    /\ main_pc = "unit_test"
    /\ mutex_owner \in {NO_OWNER, CONTROL} \cup Callers
    /\ temp_initialized = FALSE
    /\ relay_initialized \in BOOLEAN
    /\ s_relay_states \in [Channels -> BOOLEAN]
    /\ gpio_level \in [Channels -> {0, 1}]
    /\ gpio_faulty \in BOOLEAN
    /\ \E st \in States : s_status = [InitStatus EXCEPT !.state = st]
    /\ error_count = 0
    /\ ctrl_pc = "not_created"
    /\ reading = InvalidReading
    /\ now = 0
    /\ pc = [t \in Callers |-> "not_created"]
    /\ arg = [t \in Callers |-> NO_ARG]
    /\ ret = [t \in Callers |-> FALSE]
    /\ status = [t \in Callers |-> InitStatus]
    /\ committed = InitStatus
    /\ streak = 0
    /\ in_cs = [t \in Callers |-> FALSE]
    /\ fresh = [t \in Callers |-> FALSE]
    /\ unit = NoUnit

\* a direct call of relay_all_off()
relay_all_off_call ==
    /\ main_pc = "unit_test"
    /\ s_relay_states' = relay_all_off
    /\ gpio_level' = relay_all_off_levels
    /\ main_pc' = "unit_done"
    /\ UNCHANGED <<temp_initialized, relay_initialized, gpio_faulty>>
    /\ UNCHANGED <<mutex_owner, s_status, error_count, committed>>
    /\ UNCHANGED <<ctrlVars, callerVars>>
    /\ UNCHANGED unit

\* channel identifiers a caller may pass: MAIN and values outside the enum
\* (relay_channel_t is unsigned, so every other value is >= RELAY_CHANNEL_COUNT)
ChannelArgs == {RELAY_CHANNEL_MAIN, RELAY_CHANNEL_COUNT, 2, 2147483647}

\* what the driver notes about a direct call of the relay layer
RelayUnit(op, a, on, result) ==
    [op |-> op, arg |-> a, on |-> on, ret |-> result, before |-> s_relay_states]

\* a direct call of relay_apply_state(state)
relay_apply_state_call(state) ==
    /\ main_pc = "unit_test"
    /\ s_relay_states' = relay_apply_state(state).states
    /\ gpio_level' = relay_apply_state(state).levels
    /\ unit' = RelayUnit("relay_apply_state", state, FALSE,
                         relay_apply_state(state).ok)
    /\ UNCHANGED <<initVars, mutex_owner, s_status, error_count, committed>>
    /\ UNCHANGED <<ctrlVars, callerVars>>

\* a direct call of relay_set(channel, on)
relay_set_call(channel, on) ==
    /\ main_pc = "unit_test"
    /\ s_relay_states' = relay_set(channel, on).states
    /\ gpio_level' = relay_set(channel, on).levels
    /\ unit' = RelayUnit("relay_set", channel, on, relay_set(channel, on).ok)
    /\ UNCHANGED <<initVars, mutex_owner, s_status, error_count, committed>>
    /\ UNCHANGED <<ctrlVars, callerVars>>

\* a direct call of relay_get(channel)
relay_get_call(channel) ==
    /\ main_pc = "unit_test"
    /\ unit' = RelayUnit("relay_get", channel, FALSE, relay_get(channel))
    /\ UNCHANGED <<initVars, coreVars, ctrlVars, callerVars>>

NextRelay ==
    \/ relay_all_off_call
    \/ \E state \in StateArgs : relay_apply_state_call(state)
    \/ \E channel \in ChannelArgs, on \in BOOLEAN : relay_set_call(channel, on)
    \/ \E channel \in ChannelArgs : relay_get_call(channel)

SpecRelay == InitRelay /\ [][NextRelay]_vars

(* ---- state names: crockpot_state_to_string / crockpot_state_from_string ---- *)
\* C strings are sequences of character codes (ASCII), the terminating NUL
\* left implicit; a pointer argument is a flag `is NULL' and the pointee
STR_off     == <<111, 102, 102>>
STR_warm    == <<119, 97, 114, 109>>
STR_low     == <<108, 111, 119>>
STR_high    == <<104, 105, 103, 104>>
STR_OFF     == <<79, 70, 70>>
STR_WARM    == <<87, 65, 82, 77>>
STR_LOW     == <<76, 79, 87>>
STR_HIGH    == <<72, 73, 71, 72>>
STR_UNKNOWN == <<85, 78, 75, 78, 79, 87, 78>>

\* the character at 1-based position i of a C string, NUL past its end
CharAt(str, i) == IF i <= Len(str) THEN str[i] ELSE 0

\* a comparison that does not fold case
tolower_none(c) == c

\* tolower of the C locale
tolower(c) == IF c >= 65 /\ c <= 90 THEN c + 32 ELSE c

\* strcasecmp from position i on: the difference of the first pair of
\* characters that differ after tolower, 0 when both strings end
RECURSIVE strcasecmp_from(_, _, _)
strcasecmp_from(a, b, i) ==
    IF tolower(CharAt(a, i)) # tolower(CharAt(b, i))
    THEN tolower(CharAt(a, i)) - tolower(CharAt(b, i))
    ELSE IF CharAt(a, i) = 0 THEN 0
    ELSE strcasecmp_from(a, b, i + 1)

\* a comparison of the first strlen(b) characters only
strcasecmp_prefix(a, b) ==
    strcasecmp_from(SubSeq(a, 1, Min(Len(a), Len(b))), b, 1)

strcasecmp(a, b) == strcasecmp_from(a, b, 1)

\* const char* crockpot_state_to_string(crockpot_state_t state)
crockpot_state_to_string(state) ==
    CASE state = CROCKPOT_OFF  -> STR_OFF
      [] state = CROCKPOT_WARM -> STR_WARM
      [] state = CROCKPOT_LOW  -> STR_LOW
      [] state = CROCKPOT_HIGH -> STR_HIGH
      [] OTHER                 -> STR_UNKNOWN

\* bool crockpot_state_from_string(const char* str, crockpot_state_t* out):
\* the returned flag and *out afterwards (`out' is *out before the call)
crockpot_state_from_string(str_null, str, out_null, out) ==
    IF str_null \/ out_null THEN [ok |-> FALSE, out |-> out]
    ELSE IF strcasecmp(str, STR_off) = 0  THEN [ok |-> TRUE, out |-> CROCKPOT_OFF]
    ELSE IF strcasecmp(str, STR_warm) = 0 THEN [ok |-> TRUE, out |-> CROCKPOT_WARM]
    ELSE IF strcasecmp(str, STR_low) = 0  THEN [ok |-> TRUE, out |-> CROCKPOT_LOW]
    ELSE IF strcasecmp(str, STR_high) = 0 THEN [ok |-> TRUE, out |-> CROCKPOT_HIGH]
    ELSE [ok |-> FALSE, out |-> out]

\* the lower-case literal crockpot_state_from_string compares with, per state
Literal(state) ==
    CASE state = CROCKPOT_OFF  -> STR_off
      [] state = CROCKPOT_WARM -> STR_warm
      [] state = CROCKPOT_LOW  -> STR_low
      [] state = CROCKPOT_HIGH -> STR_high

\* every upper/lower-case spelling of a lower-case word
CaseVariants(word) ==
    {[i \in 1..Len(word) |-> IF i \in upper THEN word[i] - 32 ELSE word[i]] :
        upper \in SUBSET (1..Len(word))}

\* the spellings of the four state names
StateNames == UNION {CaseVariants(Literal(st)) : st \in States}

\* strings that name no state: "", "o", "of", "offf", "off ", " off", "on",
\* "UNKNOWN", "hig", "highh", "lo", "warn", "0", "LO7", "hot"
OtherStrings ==
    {<<>>, <<111>>, <<111, 102>>, <<111, 102, 102, 102>>, <<111, 102, 102, 32>>,
     <<32, 111, 102, 102>>, <<111, 110>>, STR_UNKNOWN, <<104, 105, 103>>,
     <<104, 105, 103, 104, 104>>, <<108, 111>>, <<119, 97, 114, 110>>, <<48>>,
     <<76, 79, 55>>, <<104, 111, 116>>}

\* the strings handed to crockpot_state_from_string
StringArgs == StateNames \cup OtherStrings

\* the driver's record of a direct crockpot_state_from_string call
ParseUnit(op, a, str_null, str, out_null, out, result) ==
    [op |-> op, arg |-> a, str_null |-> str_null, str |-> str,
     out_null |-> out_null, out_before |-> out,
     ret |-> result.ok, out |-> result.out,
     snap |-> s_status, before |-> s_relay_states]

\* a direct call of crockpot_state_from_string(str, &out) with `out'
\* holding any value, str or the out pointer possibly NULL
from_string_call(str_null, str, out_null, out) ==
    /\ main_pc = "unit_test"
    /\ unit' = ParseUnit("from_string", NO_ARG, str_null, str, out_null, out,
                         crockpot_state_from_string(str_null, str, out_null, out))
    /\ UNCHANGED <<initVars, coreVars, ctrlVars, callerVars>>

\* crockpot_state_from_string(crockpot_state_to_string(state), &out)
round_trip_call(state, out) ==
    /\ main_pc = "unit_test"
    /\ unit' = ParseUnit("round_trip", state, FALSE,
                         crockpot_state_to_string(state), FALSE, out,
                         crockpot_state_from_string(FALSE,
                             crockpot_state_to_string(state), FALSE, out))
    /\ UNCHANGED <<initVars, coreVars, ctrlVars, callerVars>>

\* values *out may hold before the call
OutArgs == {CROCKPOT_OFF, CROCKPOT_HIGH, INVALID_STATE}

\* the firmware initialised, the element off or on HIGH, no task running
InitParse ==
    /\ main_pc = "unit_test"
    /\ mutex_owner = NO_OWNER
    /\ temp_initialized = TRUE
    /\ relay_initialized = TRUE
    /\ \E st \in {CROCKPOT_OFF, CROCKPOT_HIGH} :
          /\ s_status = [InitStatus EXCEPT !.state = st]
          /\ s_relay_states = [c \in Channels |-> st # CROCKPOT_OFF]
          /\ gpio_level = [c \in Channels |-> PinLevel(st # CROCKPOT_OFF)]
    /\ gpio_faulty = FALSE
    /\ error_count = 0
    /\ ctrl_pc = "not_created"
    /\ reading = InvalidReading
    /\ now = 0
    /\ pc = [t \in Callers |-> "not_created"]
    /\ arg = [t \in Callers |-> NO_ARG]
    /\ ret = [t \in Callers |-> FALSE]
    /\ status = [t \in Callers |-> InitStatus]
    /\ committed = s_status
    /\ streak = 0
    /\ in_cs = [t \in Callers |-> FALSE]
    /\ fresh = [t \in Callers |-> FALSE]
    /\ unit = NoUnit

\* SpecParse: the two conversions called directly
NextParse ==
    \/ \E str_null \in BOOLEAN, str \in StringArgs, out_null \in BOOLEAN,
          out \in OutArgs :
          from_string_call(str_null, str, out_null, out)
    \/ \E state \in StateArgs, out \in OutArgs : round_trip_call(state, out)

SpecParse == InitParse /\ [][NextParse]_vars

(* ---- temperature_read called directly ---- *)
\* A 32-bit word with the thermocouple field `tc' in bits 31-18 and `low18'
\* in bits 17-0.  Words with bit 31 set are held as their two's-complement
\* value: \div rounds down and % is non-negative, so FaultBit and TcRaw
\* take the same bits out of them as the shifts and masks of the C code.
Raw32(tc, low18) ==
    IF tc >= 8192 THEN (tc - 16384) * 262144 + low18 ELSE tc * 262144 + low18

\* thermocouple fields of the samples: 0, 0.25 C, 100 C, both sides of the
\* safety limit, the largest positive, the most negative, -1 C, -0.25 C
TcFields == {0, 1, 400, 595, 596, 8191, 8192, 16380, 16383}

\* bits 15-0 of the samples: the three fault-kind bits alone and together,
\* the reserved bit 3, a cold-junction field of all ones
LowHalves == {0, 1, 2, 4, 7, 8, 65520}

\* s_last_fault after temperature_read has decoded `raw' (a failed
\* transaction leaves it as it was)
LastFault(raw) == IF FaultBit(raw) THEN raw % 8 ELSE 0

\* the driver's record of a direct temperature_read call: the thermocouple
\* field and the word it put on the bus, the reading returned, and
\* s_last_fault, which no function of temperature.h returns
ReadUnit(tc, raw, result) ==
    [op |-> "temperature_read", tc |-> tc, raw |-> raw, result |-> result,
     last_fault |-> IF raw # SPI_FAIL THEN LastFault(raw)
                    ELSE IF unit.op = "temperature_read" THEN unit.last_fault
                    ELSE 0]

\* a direct call of temperature_read with the word <tc, bit17, fault, low>
\* on the bus
temperature_read_call(tc, bit17, fault, low) ==
    /\ main_pc = "unit_test"
    /\ \E r \in temperature_read(temp_initialized,
                                 {Raw32(tc, bit17 * 131072 + fault * 65536 + low)}) :
          unit' = ReadUnit(tc, Raw32(tc, bit17 * 131072 + fault * 65536 + low), r)
    /\ UNCHANGED <<initVars, coreVars, ctrlVars, callerVars>>

\* a direct call of temperature_read whose SPI transaction fails
temperature_read_spi_fail_call ==
    /\ main_pc = "unit_test"
    /\ \E r \in temperature_read(temp_initialized, {SPI_FAIL}) :
          unit' = ReadUnit(0, SPI_FAIL, r)
    /\ UNCHANGED <<initVars, coreVars, ctrlVars, callerVars>>

\* SpecDecode: temperature_read called directly on each of the samples
NextDecode ==
    \/ \E tc \in TcFields, bit17 \in {0, 1}, fault \in {0, 1}, low \in LowHalves :
          temperature_read_call(tc, bit17, fault, low)
    \/ temperature_read_spi_fail_call

SpecDecode == InitParse /\ [][NextDecode]_vars

\* the fault frames among the samples
FaultFrames ==
    {Raw32(tc, bit17 * 131072 + 65536 + low) :
        tc \in TcFields, bit17 \in {0, 1}, low \in LowHalves}

(* ---- remote commands: process_command (telegram.c) ---- *)
CMD_status == <<47, 115, 116, 97, 116, 117, 115>>
CMD_start  == <<47, 115, 116, 97, 114, 116>>
CMD_off    == <<47, 111, 102, 102>>
CMD_warm   == <<47, 119, 97, 114, 109>>
CMD_low    == <<47, 108, 111, 119>>
CMD_high   == <<47, 104, 105, 103, 104>>
CMD_help   == <<47, 104, 101, 108, 112>>

\* texts that are no command: "", "off", "/OFF", "/of", "/offf", "/high ",
\* "/on"
OtherCommands ==
    {<<>>, STR_off, <<47, 79, 70, 70>>, <<47, 111, 102>>, <<47, 111, 102, 102, 102>>,
     <<47, 104, 105, 103, 104, 32>>, <<47, 111, 110>>}

\* the message texts process_command receives
Commands ==
    {CMD_status, CMD_start, CMD_off, CMD_warm, CMD_low, CMD_high, CMD_help}
        \cup OtherCommands

\* strcmp from position i on
RECURSIVE strcmp_from(_, _, _)
strcmp_from(a, b, i) ==
    IF CharAt(a, i) # CharAt(b, i) THEN CharAt(a, i) - CharAt(b, i)
    ELSE IF CharAt(a, i) = 0 THEN 0
    ELSE strcmp_from(a, b, i + 1)

\* a comparison of the first strlen(b) characters only
strcmp_prefix(a, b) == strcmp_from(SubSeq(a, 1, Min(Len(a), Len(b))), b, 1)

strcmp(a, b) == strcmp_from(a, b, 1)

\* the branch process_command takes for `command': the core operation it
\* calls, the state it passes, and its reply if it calls none
process_command(command) ==
    IF strcmp(command, CMD_status) = 0 \/ strcmp(command, CMD_start) = 0
    THEN [call |-> "get_status", state |-> NO_ARG, reply |-> "pending"]
    ELSE IF strcmp(command, CMD_off) = 0
    THEN [call |-> "set_state", state |-> CROCKPOT_OFF, reply |-> "pending"]
    ELSE IF strcmp(command, CMD_warm) = 0
    THEN [call |-> "set_state", state |-> CROCKPOT_WARM, reply |-> "pending"]
    ELSE IF strcmp(command, CMD_low) = 0
    THEN [call |-> "set_state", state |-> CROCKPOT_LOW, reply |-> "pending"]
    ELSE IF strcmp(command, CMD_high) = 0
    THEN [call |-> "set_state", state |-> CROCKPOT_HIGH, reply |-> "pending"]
    ELSE IF strcmp(command, CMD_help) = 0
    THEN [call |-> "none", state |-> NO_ARG, reply |-> "help"]
    ELSE [call |-> "none", state |-> NO_ARG, reply |-> "unknown"]

\* process_command on each of the message texts
CommandBranch == [command \in Commands |-> process_command(command)]

\* the telegram task's record of the command it is handling: the text, the
\* crockpot_set_state calls made for it with the state passed, and the
\* reply sent ("pending" until then)
CommandUnit(command, calls, state, reply) ==
    [op |-> "command", cmd |-> command, calls |-> calls, state |-> state,
     reply |-> reply]

\* process_command(command, chat_id) up to its call of a core operation,
\* or to its reply if it calls none
process_command_dispatch(t, command) ==
    LET branch == CommandBranch[command]
    IN  /\ Running /\ pc[t] = "idle"
        /\ unit' = CommandUnit(command,
                               IF branch.call = "set_state" THEN 1 ELSE 0,
                               branch.state, branch.reply)
        /\ arg' = [arg EXCEPT ![t] = branch.state]
        /\ pc' = [pc EXCEPT ![t] =
                     CASE branch.call = "set_state" -> "ss_take"
                       [] branch.call = "get_status" -> "gs_take"
                       [] OTHER -> "idle"]
        /\ fresh' = [fresh EXCEPT ![t] = (branch.call = "get_status")]
        /\ UNCHANGED <<initVars, coreVars, ctrlVars, ret, status, in_cs>>

\* crockpot_set_state has returned: "... turned OFF / set to ..." or
\* "Failed to ...", then telegram_send_message
process_command_reply_set(t) ==
    /\ Running /\ pc[t] = "ss_ret"
    /\ unit' = [unit EXCEPT !.reply = IF ret[t] THEN "done" ELSE "failed"]
    /\ pc' = [pc EXCEPT ![t] = "idle"]
    /\ ret' = [ret EXCEPT ![t] = FALSE]
    /\ UNCHANGED <<initVars, coreVars, ctrlVars, arg, status, in_cs, fresh>>

\* build_status_message after crockpot_get_status has returned, then
\* telegram_send_message
process_command_reply_status(t) ==
    /\ Running /\ pc[t] = "gs_ret"
    /\ unit' = [unit EXCEPT !.reply = "status"]
    /\ pc' = [pc EXCEPT ![t] = "idle"]
    /\ status' = [status EXCEPT ![t] = InitStatus]
    /\ in_cs' = [in_cs EXCEPT ![t] = FALSE]
    /\ fresh' = [fresh EXCEPT ![t] = FALSE]
    /\ UNCHANGED <<initVars, coreVars, ctrlVars, arg, ret>>

\* SpecCommands: the telegram task handles one message after another
\* beside the control loop, whose sensor delivers an over-temperature
\* sample or a fault frame.
NextCommands ==
    \/ StartUp({TRUE})
    \/ ControlTask({RAW_HOT, RAW_FAULT}, {FALSE}, 0)
    \/ \E command \in Commands : process_command_dispatch("telegram", command)
    \/ get_status_take("telegram")
    \/ get_status_copy_give("telegram")
    \/ get_status_take_timeout("telegram")
    \/ get_status_unlocked_copy("telegram")
    \/ get_status_unlocked_copy2("telegram")
    \/ process_command_reply_status("telegram")
    \/ set_state_take("telegram")
    \/ set_state_take_timeout("telegram")
    \/ set_state_apply("telegram")
    \/ set_state_write("telegram")
    \/ set_state_give("telegram")
    \/ process_command_reply_set("telegram")

SpecCommands == Init /\ [][NextCommands]_vars

(* ---- the WiFi event handler ---- *)

\* maximum reconnection attempts before giving up
WIFI_MAX_RETRY == 5

\* number of events delivered to the handler in one run
MaxEvents == 9

\* a handler that retries once more than the maximum
wifi_event_handler_eager(w, event) ==
    IF event = "WIFI_EVENT_STA_START"
    THEN [w EXCEPT !.status = "WIFI_STATUS_CONNECTING",
                   !.connects = @ + 1]
    ELSE IF event = "WIFI_EVENT_STA_DISCONNECTED"
    THEN IF w.retry_count <= WIFI_MAX_RETRY
         THEN [w EXCEPT !.retry_count = @ + 1,
                        !.status = "WIFI_STATUS_CONNECTING",
                        !.connects = @ + 1]
         ELSE [w EXCEPT !.status = "WIFI_STATUS_ERROR",
                        !.bits = @ \cup {"WIFI_FAIL_BIT"}]
    ELSE IF event = "IP_EVENT_STA_GOT_IP"
    THEN [w EXCEPT !.retry_count = 0,
                   !.status = "WIFI_STATUS_CONNECTED",
                   !.bits = @ \cup {"WIFI_CONNECTED_BIT"}]
    ELSE w

\* wifi_event_handler on s_retry_count, s_status, the event group bits and
\* the number of esp_wifi_connect calls made so far
wifi_event_handler(w, event) ==
    IF event = "WIFI_EVENT_STA_START"
    THEN [w EXCEPT !.status = "WIFI_STATUS_CONNECTING",
                   !.connects = @ + 1]
    ELSE IF event = "WIFI_EVENT_STA_DISCONNECTED"
    THEN IF w.retry_count < WIFI_MAX_RETRY
         THEN [w EXCEPT !.retry_count = @ + 1,
                        !.status = "WIFI_STATUS_CONNECTING",
                        !.connects = @ + 1]
         ELSE [w EXCEPT !.status = "WIFI_STATUS_ERROR",
                        !.bits = @ \cup {"WIFI_FAIL_BIT"}]
    ELSE IF event = "IP_EVENT_STA_GOT_IP"
    THEN [w EXCEPT !.retry_count = 0,
                   !.status = "WIFI_STATUS_CONNECTED",
                   !.bits = @ \cup {"WIFI_CONNECTED_BIT"}]
    ELSE w

\* the event loop task delivers one event to the handler
wifi_event_post(event) ==
    /\ main_pc = "unit_test"
    /\ unit.op = "wifi"
    /\ unit.events < MaxEvents
    /\ unit' = [wifi_event_handler(unit, event) EXCEPT !.event = event,
                                                       !.events = @ + 1]
    /\ UNCHANGED <<initVars, coreVars, ctrlVars, callerVars>>

\* the statics of wifi.c as initialised, or as wifi_connect leaves them
InitWifiEvents ==
    /\ main_pc = "unit_test"
    /\ mutex_owner = NO_OWNER
    /\ temp_initialized = TRUE
    /\ relay_initialized = TRUE
    /\ s_status = InitStatus
    /\ s_relay_states = [c \in Channels |-> FALSE]
    /\ gpio_level = [c \in Channels |-> PinLevel(FALSE)]
    /\ gpio_faulty = FALSE
    /\ error_count = 0
    /\ ctrl_pc = "not_created"
    /\ reading = InvalidReading
    /\ now = 0
    /\ pc = [t \in Callers |-> "not_created"]
    /\ arg = [t \in Callers |-> NO_ARG]
    /\ ret = [t \in Callers |-> FALSE]
    /\ status = [t \in Callers |-> InitStatus]
    /\ committed = s_status
    /\ streak = 0
    /\ in_cs = [t \in Callers |-> FALSE]
    /\ fresh = [t \in Callers |-> FALSE]
    /\ \E st \in {"WIFI_STATUS_DISCONNECTED", "WIFI_STATUS_CONNECTING"} :
          unit = [op |-> "wifi", retry_count |-> 0, status |-> st,
                  connects |-> 0, bits |-> {}, event |-> "none", events |-> 0]

\* SpecWifiEvents: the handler driven by any sequence of the events it is
\* registered for: every WIFI_EVENT id (station start, station disconnected,
\* and ids it does not act on such as station connected) and
\* IP_EVENT_STA_GOT_IP
NextWifiEvents ==
    \/ wifi_event_post("WIFI_EVENT_STA_START")
    \/ wifi_event_post("WIFI_EVENT_STA_DISCONNECTED")
    \/ wifi_event_post("WIFI_EVENT_STA_CONNECTED")
    \/ wifi_event_post("IP_EVENT_STA_GOT_IP")

SpecWifiEvents == InitWifiEvents /\ [][NextWifiEvents]_vars

(* ---- crockpot_set_state called back to back ---- *)
\* the driver's record: the argument of the call under way, and argument,
\* result, snapshot and relay outputs of the call that returned before it
CallUnit(s, prev_arg, prev_ret) ==
    [op |-> "set_state", arg |-> s, prev_arg |-> prev_arg, prev_ret |-> prev_ret,
     snap |-> s_status, before |-> s_relay_states]

\* the system at rest after start-up: the control task sleeps in
\* vTaskDelayUntil, the front ends are idle, the snapshot is one the control
\* loop and earlier calls have left
InitCalls ==
    /\ main_pc = "running"
    /\ mutex_owner = NO_OWNER
    /\ temp_initialized \in BOOLEAN
    /\ relay_initialized = TRUE
    /\ \E st \in {CROCKPOT_OFF, CROCKPOT_HIGH}, err \in BOOLEAN,
          tf \in {0, Decode(RAW_HOT).temperature_f} :
          /\ s_status = [InitStatus EXCEPT !.state = st, !.sensor_error = err,
                                           !.temperature_f = tf]
          /\ s_relay_states = [c \in Channels |-> st # CROCKPOT_OFF]
          /\ gpio_level = [c \in Channels |-> PinLevel(st # CROCKPOT_OFF)]
    /\ gpio_faulty = FALSE
    /\ error_count = 0
    /\ ctrl_pc = "c_delay"
    /\ reading = InvalidReading
    /\ now = 0
    /\ pc = [t \in Callers |-> "idle"]
    /\ arg = [t \in Callers |-> NO_ARG]
    /\ ret = [t \in Callers |-> FALSE]
    /\ status = [t \in Callers |-> InitStatus]
    /\ committed = s_status
    /\ streak = 0
    /\ in_cs = [t \in Callers |-> FALSE]
    /\ fresh = [t \in Callers |-> FALSE]
    /\ unit = CallUnit(NO_ARG, NO_ARG, FALSE)

\* the driver calls crockpot_set_state(s)
set_state_call_next(t, s) ==
    /\ Running /\ pc[t] = "idle"
    /\ arg' = [arg EXCEPT ![t] = s]
    /\ pc' = [pc EXCEPT ![t] = "ss_take"]
    /\ unit' = [unit EXCEPT !.arg = s]
    /\ UNCHANGED <<initVars, coreVars, ctrlVars, ret, status, in_cs, fresh>>

\* crockpot_set_state has returned to the driver, which notes the result
set_state_return_noted(t) ==
    /\ Running /\ pc[t] = "ss_ret"
    /\ pc' = [pc EXCEPT ![t] = "idle"]
    /\ ret' = [ret EXCEPT ![t] = FALSE]
    /\ unit' = CallUnit(NO_ARG, unit.arg, ret[t])
    /\ UNCHANGED <<initVars, coreVars, ctrlVars, arg, status, in_cs, fresh>>

\* SpecCalls: one context calls crockpot_set_state again and again, with
\* nothing else running between the calls
NextCalls ==
    \/ \E s \in {CROCKPOT_OFF, CROCKPOT_HIGH, INVALID_STATE} :
          set_state_call_next("telegram", s)
    \/ set_state_take("telegram")
    \/ set_state_apply("telegram")
    \/ set_state_write("telegram")
    \/ set_state_give("telegram")
    \/ set_state_return_noted("telegram")

SpecCalls == InitCalls /\ [][NextCalls]_vars

TypeOK ==
    /\ main_pc \in {"init_mutex", "init_temp", "init_relay", "init_alloff",
                    "create_tasks", "restart", "running",
                    "unit_test", "unit_done"}
    /\ s_status.state \in States
    /\ gpio_level \in [Channels -> {0, 1}]
    /\ gpio_faulty \in BOOLEAN
    /\ error_count \in 0 .. (ERROR_COUNT_LIMIT + 1)
    /\ mutex_owner \in {NO_OWNER, CONTROL} \cup Callers
    /\ streak \in 0 .. StreakCap
    /\ now \in 0 .. MaxUptime

(* ---- properties ---- *)
MainRelayOn == relay_get(RELAY_CHANNEL_MAIN)

\* the holder of the mutex has made all its writes and is about to give it
HolderAtGive ==
    \/ mutex_owner = CONTROL /\ ctrl_pc = "c_give"
    \/ \E t \in Callers :
          mutex_owner = t /\ pc[t] \in {"ss_give", "ss_give_fail", "gs_copy"}

\* C1: every loop iteration whose reading is valid and above
\* CROCKPOT_SAFETY_TEMP_F ends (at the give, or at the failed take) with the
\* snapshot state OFF and the MAIN relay off.
C1_OverTempCycleEndsOff ==
    [][(/\ ctrl_pc \in {"c_take", "c_give"}
        /\ ctrl_pc' \in {"c_delay", "c_delay_skipped"}
        /\ OverTemperature(reading))
       => (/\ s_status'.state = CROCKPOT_OFF
           /\ ~s_relay_states'[RELAY_CHANNEL_MAIN])]_vars

\* C2: state OFF implies the MAIN relay is off whenever the mutex is free
\* (after every cycle and every crockpot_set_state call) and whenever a
\* crockpot_get_status caller whose lock wait timed out reads the snapshot.
C2_OffImpliesRelayOffVisible ==
    /\ mutex_owner = NO_OWNER
          => (s_status.state = CROCKPOT_OFF => ~MainRelayOn)
    /\ \A t \in Callers :
          pc[t] \in {"gs_unlocked", "gs_unlocked2"}
             => (s_status.state = CROCKPOT_OFF => ~MainRelayOn)

\* C3: whenever no context holds the mutex, the MAIN relay is on exactly
\* when the snapshot state is not OFF.
C3_RelayMatchesStateUnlocked ==
    mutex_owner = NO_OWNER => (MainRelayOn <=> s_status.state # CROCKPOT_OFF)

\* C4: when crockpot_set_state(s) is about to release the mutex and return
\* true, the snapshot state is s and the MAIN relay is on exactly when s is
\* not OFF; a crockpot_get_status call during which the state was not
\* written returns the snapshot's state.
C4_SetStateThenGetStatus ==
    /\ \A t \in Callers :
          pc[t] = "ss_give"
             => /\ s_status.state = arg[t]
                /\ MainRelayOn <=> (arg[t] # CROCKPOT_OFF)
    /\ \A t \in Callers :
          (pc[t] = "gs_ret" /\ fresh[t]) => status[t].state = s_status.state

\* C4 witness: crockpot_set_state(WARM) succeeded and a later
\* crockpot_get_status call has returned WARM with the relay on.
C4_Witness ==
    \E t \in Callers :
       /\ pc[t] = "gs_ret" /\ fresh[t]
       /\ status[t].state = CROCKPOT_WARM
       /\ MainRelayOn

\* C5: when relay_apply_state failed inside crockpot_set_state, the call is
\* about to return false with the snapshot unchanged and the MAIN relay
\* still matching the snapshot state.
C5_FailedApplyKeepsStateAndRelay ==
    \A t \in Callers :
       pc[t] = "ss_give_fail"
          => /\ s_status = committed
             /\ MainRelayOn <=> s_status.state # CROCKPOT_OFF

\* C6: there are never 11 consecutive loop iterations that each observed an
\* invalid reading and ended with the snapshot state not OFF.
C6_FaultStreakForcesOff == streak <= ERROR_COUNT_LIMIT

\* C7: error_count is zero at the end of every cycle with a valid reading
\* and of every cycle in which the state is OFF.
C7_CounterZeroAfterValidOrOff ==
    (ctrl_pc = "c_give" /\ (reading.valid \/ s_status.state = CROCKPOT_OFF))
       => error_count = 0

\* C8: the fault interlock trips only in a cycle whose 10 predecessors all
\* observed an invalid reading with the state not OFF.
C8_TripOnlyAfterConsecutiveFaults ==
    ctrl_pc = "c_fault_off" => streak >= ERROR_COUNT_LIMIT

\* C9: a status that crockpot_get_status copied without the mutex, inside
\* the critical section of another context, equals the snapshot as it was
\* before that critical section or as it is at its end.
C9_StatusNeverTorn ==
    HolderAtGive
       => \A t \in Callers :
             (pc[t] = "gs_ret" /\ in_cs[t]) => status[t] \in {committed, s_status}

\* C10: once the tasks run, a context that is about to write the relay
\* (relay_apply_state in crockpot_set_state, relay_all_off in the control
\* loop) holds the mutex, so at most one context is at a relay write.
C10_RelayWritesHoldMutex ==
    /\ \A t \in Callers : pc[t] = "ss_apply" => mutex_owner = t
    /\ ctrl_pc \in {"c_overtemp_off", "c_fault_off"} => mutex_owner = CONTROL
    /\ Cardinality({t \in Callers : pc[t] = "ss_apply"}) +
       (IF ctrl_pc \in {"c_overtemp_off", "c_fault_off"} THEN 1 ELSE 0) <= 1

\* C10 witness: crockpot_set_state is about to write the relay while the
\* control task waits for the mutex with an over-temperature reading.
C10_Witness ==
    \E t \in Callers :
       /\ pc[t] = "ss_apply" /\ arg[t] = CROCKPOT_HIGH
       /\ ctrl_pc = "c_take" /\ OverTemperature(reading)

\* C11: a crockpot_get_status call whose lock wait timed out returns the
\* last snapshot that could be read successfully, that is s_status as it was
\* when the mutex was last free.
C11_TimeoutReturnsLastSnapshot ==
    \A t \in Callers :
       (pc[t] = "gs_ret" /\ in_cs[t]) => status[t] = committed

\* C12: the step in which crockpot_set_state gives up waiting for the mutex
\* makes the call return false and changes neither s_status nor the relay
\* outputs.
C12_SetStateTimeoutChangesNothing ==
    [][\A t \in Callers :
          (pc[t] = "ss_take" /\ pc'[t] = "ss_ret")
             => /\ ret'[t] = FALSE
                /\ s_status' = s_status
                /\ s_relay_states' = s_relay_states]_vars

\* C12 witness: crockpot_set_state has returned false while the control task
\* still holds the mutex, with the state HIGH and the relay on as before.
C12_Witness ==
    \E t \in Callers :
       /\ pc[t] = "ss_ret" /\ ~ret[t]
       /\ mutex_owner = CONTROL
       /\ s_status.state = CROCKPOT_HIGH /\ MainRelayOn

\* C13: at the end of every loop iteration (the weakest reading of "in every
\* reachable state") s_status.sensor_error is true exactly when the
\* temperature_read() of that iteration, the most recent one, was invalid.
C13_SensorErrorTracksLastRead ==
    [][(/\ ctrl_pc \in {"c_take", "c_give"}
        /\ ctrl_pc' \in {"c_delay", "c_delay_skipped"})
       => (s_status'.sensor_error <=> ~reading.valid)]_vars

\* C14: a loop iteration whose reading is invalid ends with sensor_error
\* true and temperature_f as it was before the iteration; an iteration whose
\* reading is valid ends with that reading's temperature_f stored and
\* sensor_error false.
C14_CycleUpdatesTemperatureFields ==
    [][(/\ ctrl_pc \in {"c_take", "c_give"}
        /\ ctrl_pc' \in {"c_delay", "c_delay_skipped"})
       => IF reading.valid
          THEN /\ s_status'.temperature_f = reading.temperature_f
               /\ ~s_status'.sensor_error
          ELSE /\ s_status'.sensor_error
               /\ s_status'.temperature_f = committed.temperature_f]_vars

\* no task has been created yet
NoTaskCreated ==
    ctrl_pc = "not_created" /\ \A t \in Callers : pc[t] = "not_created"

\* C15: once relay_init has succeeded every channel's last-commanded output
\* is off, and when crockpot_init has returned true the snapshot state is
\* OFF, every channel is off and no task has been created yet.
C15_InitLeavesOffBeforeTasks ==
    /\ main_pc = "init_alloff" => \A c \in Channels : ~relay_get(c)
    /\ main_pc = "create_tasks"
          => /\ s_status.state = CROCKPOT_OFF
             /\ \A c \in Channels : ~relay_get(c)
             /\ NoTaskCreated

\* C15 witness: crockpot_init has returned true with both subsystems
\* initialised and app_main is about to create the tasks.
C15_Witness ==
    /\ main_pc = "create_tasks"
    /\ relay_initialized /\ temp_initialized
    /\ NoTaskCreated

\* C16: while app_main is on its way to esp_restart no task exists, and a
\* task exists only after crockpot_init went through the creation of the
\* mutex and a successful relay_init, so no crockpot_set_state call and no
\* loop iteration runs with the relay layer not initialised.
C16_NoTasksWithoutActuator ==
    /\ main_pc = "restart" => NoTaskCreated
    /\ ~NoTaskCreated => (main_pc = "running" /\ relay_initialized)
    /\ main_pc \in {"init_mutex", "init_temp", "init_relay"} => ~relay_initialized

\* C16 witness: relay_init has returned false (temperature_init had
\* succeeded) and app_main restarts without having created a task.
C16_Witness ==
    /\ main_pc = "restart"
    /\ temp_initialized /\ ~relay_initialized
    /\ NoTaskCreated

\* C17: crockpot_init goes on to relay_init whatever temperature_init
\* returned, and with the sensor not initialised crockpot_set_state still
\* drives the relay to the requested state and stores that state.
C17_CoreReadyWithoutSensor ==
    [][/\ main_pc = "init_temp" => main_pc' = "init_relay"
       /\ \A t \in Callers :
             (~temp_initialized /\ pc[t] = "ss_apply" /\ pc'[t] # "ss_apply")
                => /\ pc'[t] = "ss_write"
                   /\ s_relay_states'[RELAY_CHANNEL_MAIN] = (arg[t] # CROCKPOT_OFF)
       /\ \A t \in Callers :
             (~temp_initialized /\ pc[t] = "ss_write" /\ pc'[t] = "ss_give")
                => s_status'.state = arg[t]]_vars

\* C17 witness: temperature_init failed, the tasks run, and
\* crockpot_set_state(HIGH) has returned true with the relay on.
C17_Witness ==
    \E t \in Callers :
       /\ ~temp_initialized
       /\ pc[t] = "ss_ret" /\ ret[t]
       /\ s_status.state = CROCKPOT_HIGH /\ MainRelayOn

\* C18: when temperature_init failed, the control loop never forces the
\* state to OFF on account of the missing sensor: the fault interlock does
\* not trip while the sensor is not initialised.
C18_NoShutoffForAbsentSensor ==
    ~temp_initialized => ctrl_pc # "c_fault_off"

\* C19: relay_all_off completes and leaves every channel's last-commanded
\* output false, whatever the outputs were, whether or not the relay layer
\* is initialised and whoever holds the mutex; it changes neither the mutex
\* nor the snapshot nor the initialised flag.
C19_AllOffAlwaysWorks ==
    [][(main_pc = "unit_test" /\ main_pc' = "unit_done")
       => /\ \A c \in Channels : ~s_relay_states'[c]
          /\ UNCHANGED <<mutex_owner, s_status, relay_initialized>>]_vars

\* C19 witness: relay_all_off has run with the relay layer not initialised
\* while the control task holds the mutex and the snapshot state is HIGH; the
\* rejected pin write left the pin energised, the last-commanded output is off.
C19_Witness ==
    /\ main_pc = "unit_done"
    /\ ~relay_initialized /\ mutex_owner = CONTROL
    /\ s_status.state = CROCKPOT_HIGH
    /\ gpio_faulty /\ gpio_level[RELAY_CHANNEL_MAIN] = PinLevel(TRUE)
    /\ \A c \in Channels : ~relay_get(c)

\* C20: when relay_set runs (inside crockpot_set_state) while the pin write
\* fails, the last-commanded value that relay_get returns stays as it was and
\* relay_set reports the failure, so that crockpot_set_state takes its
\* failure path.
C20_RelaySetFollowsPinWrite ==
    [][\A t \in Callers :
          (gpio_faulty /\ pc[t] = "ss_apply" /\ pc'[t] # "ss_apply")
             => /\ s_relay_states' = s_relay_states
                /\ pc'[t] = "ss_give_fail"]_vars

\* C21: with the relay layer initialised, relay_apply_state(OFF) returns
\* true with the MAIN channel off, and relay_apply_state(s) for s in
\* {WARM, LOW, HIGH} returns true with the MAIN channel on; the pin is driven
\* to the same level for all three unless the driver rejects the write.
C21_ApplyStateActuation ==
    (/\ main_pc = "unit_test" /\ unit.op = "relay_apply_state"
     /\ relay_initialized /\ unit.arg \in States)
       => /\ unit.ret
          /\ relay_get(RELAY_CHANNEL_MAIN) = (unit.arg # CROCKPOT_OFF)
          /\ ~gpio_faulty
                => gpio_level[RELAY_CHANNEL_MAIN] = PinLevel(unit.arg # CROCKPOT_OFF)

\* C21 witness: relay_apply_state(LOW) was called with the MAIN channel off
\* and has returned true with the channel on.
C21_Witness ==
    /\ main_pc = "unit_test" /\ unit.op = "relay_apply_state"
    /\ relay_initialized /\ unit.arg = CROCKPOT_LOW
    /\ ~unit.before[RELAY_CHANNEL_MAIN]
    /\ unit.ret /\ relay_get(RELAY_CHANNEL_MAIN)

\* C22: relay_set returns false and leaves every last-commanded output as
\* it was when the channel is out of range or the relay layer is not
\* initialised; relay_get of an out-of-range channel returns false.
C22_RelayRejectsBadCalls ==
    /\ (/\ main_pc = "unit_test" /\ unit.op = "relay_set"
        /\ (unit.arg >= RELAY_CHANNEL_COUNT \/ ~relay_initialized))
          => (~unit.ret /\ s_relay_states = unit.before)
    /\ (/\ main_pc = "unit_test" /\ unit.op = "relay_get"
        /\ unit.arg >= RELAY_CHANNEL_COUNT)
          => ~unit.ret

\* C22 witness: relay_set(MAIN, true) was called before relay_init and has
\* returned false with the channel still off.
C22_Witness ==
    /\ main_pc = "unit_test" /\ unit.op = "relay_set"
    /\ ~relay_initialized
    /\ unit.arg = RELAY_CHANNEL_MAIN /\ unit.on
    /\ ~unit.ret /\ ~relay_get(RELAY_CHANNEL_MAIN)

\* C23: once crockpot_set_state(s) holds the lock with the relay layer
\* initialised, the transition goes through for each of the four states s,
\* whatever the current state, temperature_f and sensor_error are: the relay
\* is driven for s, the snapshot's state becomes s, the lock is released and
\* the call returns true.
C23_SetStateAlwaysAllowed ==
    [][\A t \in Callers :
         /\ (/\ pc[t] = "ss_apply" /\ pc'[t] # "ss_apply"
             /\ arg[t] \in States /\ relay_initialized)
               => /\ pc'[t] = "ss_write"
                  /\ s_relay_states'[RELAY_CHANNEL_MAIN] = (arg[t] # CROCKPOT_OFF)
         /\ (pc[t] = "ss_write" /\ pc'[t] # "ss_write")
               => (pc'[t] = "ss_give" /\ s_status'.state = arg[t])
         /\ (pc[t] = "ss_give" /\ pc'[t] # "ss_give")
               => (pc'[t] = "ss_ret" /\ ret'[t] /\ mutex_owner' = NO_OWNER)
      ]_vars

\* C23 witness: with a temperature above the limit and the sensor error
\* flag in the snapshot, crockpot_set_state(HIGH) has returned true and the
\* heating element is energised.
C23_Witness ==
    /\ pc["telegram"] = "ss_ret" /\ ret["telegram"]
    /\ s_status.state = CROCKPOT_HIGH
    /\ s_status.sensor_error
    /\ s_status.temperature_f > CROCKPOT_SAFETY_TEMP_F
    /\ MainRelayOn

\* the snapshot of the execution that differs from this one only in the
\* values wifi_is_connected() returned
TwinStatus(connected) == [s_status EXCEPT !.wifi_connected = connected]

\* C24: safety behaviour does not depend on connectivity.  Of two
\* executions with the same readings, calls and scheduling and different
\* values of wifi_is_connected(), the snapshots differ in wifi_connected
\* only: the one decision of the control loop that reads the snapshot comes
\* out the same for either value of the field, the field is written by the
\* WiFi update of the control loop alone, and that update leaves state,
\* sensor_error, temperature_f, the fault counter and the relay as they are.
C24_SafetyIndependentOfWifi ==
    /\ [](\A connected \in BOOLEAN :
             FaultWhileHeating(TwinStatus(connected)) = FaultWhileHeating(s_status))
    /\ [][/\ s_status'.wifi_connected # s_status.wifi_connected
                => (ctrl_pc = "c_wifi" /\ ctrl_pc' = "c_overtemp")
          /\ (ctrl_pc = "c_wifi" /\ ctrl_pc' # "c_wifi")
                => /\ s_status' = [s_status EXCEPT !.wifi_connected = s_status'.wifi_connected]
                   /\ s_relay_states' = s_relay_states
                   /\ gpio_level' = gpio_level
                   /\ error_count' = error_count
         ]_vars

\* C24 witness: the control loop is about to take the fault decision that
\* trips the interlock, with the link reported up, where the other execution
\* had it reported down.
C24_Witness ==
    /\ ctrl_pc = "c_fault"
    /\ s_status.wifi_connected
    /\ FaultWhileHeating(s_status)
    /\ error_count = ERROR_COUNT_LIMIT
    /\ MainRelayOn

\* C25: when crockpot_set_state(OFF) has succeeded and is called again at
\* once, the second successful call leaves the snapshot and the relay's
\* last-commanded outputs exactly as the first one left them.
C25_SetStateOffIdempotent ==
    (/\ pc["telegram"] = "ss_ret" /\ ret["telegram"]
     /\ unit.arg = CROCKPOT_OFF
     /\ unit.prev_arg = CROCKPOT_OFF /\ unit.prev_ret)
       => (s_status = unit.snap /\ s_relay_states = unit.before)

\* C25 witness: the second of two successful crockpot_set_state(OFF) calls
\* has returned, the snapshot holding a sensor error throughout.
C25_Witness ==
    /\ pc["telegram"] = "ss_ret" /\ ret["telegram"]
    /\ unit.arg = CROCKPOT_OFF
    /\ unit.prev_arg = CROCKPOT_OFF /\ unit.prev_ret
    /\ s_status.state = CROCKPOT_OFF /\ ~MainRelayOn
    /\ s_status.sensor_error

\* C26: for each of the four states s,
\* crockpot_state_from_string(crockpot_state_to_string(s)) succeeds and
\* yields s, and every upper/lower-case spelling of "off", "warm", "low",
\* "high" parses to the state of the lower-case literal.
C26_StateNamesRoundTrip ==
    /\ (/\ main_pc = "unit_test" /\ unit.op = "round_trip" /\ unit.arg \in States)
          => (unit.ret /\ unit.out = unit.arg)
    /\ \A st \in States :
          (/\ main_pc = "unit_test" /\ unit.op = "from_string"
           /\ ~unit.str_null /\ ~unit.out_null
           /\ unit.str \in CaseVariants(Literal(st)))
             => (unit.ret /\ unit.out = st)

\* C26 witness: "wArM" has been parsed, with *out holding HIGH before.
C26_Witness ==
    /\ main_pc = "unit_test" /\ unit.op = "from_string"
    /\ ~unit.str_null /\ ~unit.out_null
    /\ unit.str = <<119, 65, 114, 77>>
    /\ unit.out_before = CROCKPOT_HIGH
    /\ unit.ret /\ unit.out = CROCKPOT_WARM

\* C27: crockpot_state_from_string on a string that is no spelling of
\* "off", "warm", "low", "high", on a NULL string or on a NULL output
\* pointer returns false and changes nothing: *out, the snapshot and the
\* relay outputs are as before the call.
C27_BadNameChangesNothing ==
    (/\ main_pc = "unit_test" /\ unit.op = "from_string"
     /\ (unit.str_null \/ unit.out_null \/ unit.str \notin StateNames))
       => /\ ~unit.ret
          /\ unit.out = unit.out_before
          /\ s_status = unit.snap
          /\ s_relay_states = unit.before

\* C27 witness: "offf" has been rejected with *out still holding HIGH and the
\* element still energised.
C27_Witness ==
    /\ main_pc = "unit_test" /\ unit.op = "from_string"
    /\ ~unit.str_null /\ ~unit.out_null
    /\ unit.str = <<111, 102, 102, 102>>
    /\ unit.out_before = CROCKPOT_HIGH
    /\ ~unit.ret /\ unit.out = CROCKPOT_HIGH
    /\ MainRelayOn

\* C28: decoding a sample with the fault bit (bit 16) set yields a reading
\* with valid = false whatever the other bits are, and the reading tells an
\* open-circuit fault (bit 0) from the short faults (bits 1, 2): a frame
\* whose open-circuit bit differs yields a different reading.
C28_FaultKindReported ==
    (/\ main_pc = "unit_test" /\ unit.op = "temperature_read"
     /\ unit.raw # SPI_FAIL /\ FaultBit(unit.raw))
       => /\ ~unit.result.valid
          /\ \A other \in FaultFrames :
                (other % 2 # unit.raw % 2) => Decode(other) # unit.result

\* C29: for a sample with the fault bit clear temperature_read returns
\* valid = true, temperature_c = 0.25 times the sign-extended 14-bit field
\* of bits 31-18 and temperature_f = temperature_c * 9 / 5 + 32 (in
\* hundredths of a degree); 0x06400000 gives 100.00 C and 212.00 F, a field
\* encoding -4 gives -1.00 C.
C29_DecodeTemperature ==
    (/\ main_pc = "unit_test" /\ unit.op = "temperature_read"
     /\ unit.raw # SPI_FAIL /\ ~FaultBit(unit.raw))
       => /\ unit.result.valid
          /\ unit.result.temperature_c =
                25 * (IF unit.tc >= 8192 THEN unit.tc - 16384 ELSE unit.tc)
          /\ unit.result.temperature_f * 5 = unit.result.temperature_c * 9 + 16000
          /\ unit.raw = 104857600
                => (unit.result.temperature_c = 10000 /\ unit.result.temperature_f = 21200)
          /\ unit.tc = 16384 - 4 => unit.result.temperature_c = -100

\* C29 witness: a sample whose field encodes -4, with cold-junction and
\* reserved bits set, has been decoded to -1.00 C.
C29_Witness ==
    /\ main_pc = "unit_test" /\ unit.op = "temperature_read"
    /\ unit.tc = 16380 /\ unit.raw % 65536 = 65520
    /\ ~FaultBit(unit.raw)
    /\ unit.result.valid /\ unit.result.temperature_c = -100
    /\ unit.result.temperature_f = 3020

\* C30: temperature_read always returns a reading.  With the sensor not
\* initialised or the SPI transaction failing, the reading is the one a
\* fault frame gives (valid = false, both temperatures 0), and the control
\* loop handles it as a sensor fault: it sets sensor_error, keeps
\* temperature_f, counts the cycle while the state is not OFF, and goes on
\* to the next cycle.
C30_FailedReadIsSensorFault ==
    /\ [](ctrl_pc \notin {"not_created", "c_read", "c_delay", "c_delay_skipped"}
             => (reading = Decode(RAW_HOT)
                 \/ (reading = InvalidReading /\ reading = Decode(RAW_FAULT))))
    /\ [][/\ (ctrl_pc = "c_temp" /\ ctrl_pc' # "c_temp" /\ ~reading.valid)
                => /\ s_status'.sensor_error
                   /\ s_status'.temperature_f = s_status.temperature_f
          /\ (ctrl_pc = "c_fault" /\ ctrl_pc' # "c_fault" /\ ~reading.valid
              /\ s_status.state # CROCKPOT_OFF)
                => /\ error_count' = error_count + 1
                   /\ FaultLimitExceeded(error_count + 1)
                         => (s_status'.state = CROCKPOT_OFF /\ ctrl_pc' = "c_fault_off")
          /\ (ctrl_pc = "c_give" /\ ctrl_pc' # "c_give") => ctrl_pc' = "c_delay"
         ]_vars

\* C30 witness: with the sensor initialised and the element on HIGH, a
\* cycle whose SPI transaction failed has set sensor_error and counted the
\* fault, and the loop is about to wait for its next cycle.
C30_Witness ==
    /\ temp_initialized
    /\ ctrl_pc = "c_delay"
    /\ s_status.sensor_error
    /\ s_status.state = CROCKPOT_HIGH
    /\ error_count = 3
    /\ s_status.temperature_f = Decode(RAW_HOT).temperature_f

\* C31: stepping at the local UI is clamped.  A pass of process_buttons
\* that finds only the UP button pressed computes WARM from OFF, LOW from
\* WARM, HIGH from LOW and HIGH from HIGH; one that finds only DOWN
\* computes LOW, WARM, OFF, OFF from HIGH, LOW, WARM, OFF; and whenever the
\* computed state equals the state read, crockpot_set_state is not called.
C31_ButtonSteppingClamped ==
    [][(pc["display"] = "gs_ret" /\ pc'["display"] # "gs_ret")
          => /\ (unit'.up /\ ~unit'.down /\ ~unit'.select)
                   => unit'.new_state =
                         (IF unit'.seen < CROCKPOT_HIGH THEN unit'.seen + 1
                          ELSE CROCKPOT_HIGH)
             /\ (unit'.down /\ ~unit'.up /\ ~unit'.select)
                   => unit'.new_state =
                         (IF unit'.seen > CROCKPOT_OFF THEN unit'.seen - 1
                          ELSE CROCKPOT_OFF)
             /\ (unit'.new_state = unit'.seen)
                   => (pc'["display"] = "idle" /\ arg'["display"] = NO_ARG)
             /\ (unit'.new_state # unit'.seen)
                   => (pc'["display"] = "ss_take"
                       /\ arg'["display"] = unit'.new_state)
      ]_vars

\* C31 witness: with the state HIGH, a pass that found only UP pressed has
\* ended without a crockpot_set_state call.
C31_Witness ==
    /\ unit.op = "buttons"
    /\ unit.up /\ ~unit.down /\ ~unit.select
    /\ unit.seen = CROCKPOT_HIGH /\ unit.new_state = CROCKPOT_HIGH
    /\ pc["display"] = "idle"
    /\ s_status.state = CROCKPOT_HIGH /\ MainRelayOn

\* C35: handling a DOWN press never raises the heat setting: the
\* crockpot_set_state call of a pass that found only DOWN pressed makes no
\* OFF -> non-OFF transition of the snapshot state and does not turn the
\* relay on, whatever happened to the state since the pass read it.
C35_DownNeverRaises ==
    [][(/\ unit.op = "buttons" /\ unit.down /\ ~unit.up /\ ~unit.select
        /\ pc["display"] \in {"ss_apply", "ss_write"}
        /\ pc'["display"] # pc["display"])
          => /\ ~(s_status.state = CROCKPOT_OFF /\ s_status'.state # CROCKPOT_OFF)
             /\ ~(~s_relay_states[RELAY_CHANNEL_MAIN] /\ s_relay_states'[RELAY_CHANNEL_MAIN])
      ]_vars

\* the state each of the four setting commands names
C32_StateOfCommand ==
    (CMD_off :> CROCKPOT_OFF) @@ (CMD_warm :> CROCKPOT_WARM)
        @@ (CMD_low :> CROCKPOT_LOW) @@ (CMD_high :> CROCKPOT_HIGH)

\* C32: /off, /warm, /low and /high each make exactly one
\* crockpot_set_state call, with the matching state, and the reply is a
\* failure text when that call returned false; /status, /start, /help and
\* any other text make no crockpot_set_state call, and handling them leaves
\* the snapshot state and the relay unchanged.
C32_CommandsMapOneToOne ==
    [][/\ (pc["telegram"] = "idle" /\ unit' # unit)
            => IF unit'.cmd \in DOMAIN C32_StateOfCommand
               THEN /\ pc'["telegram"] = "ss_take"
                    /\ arg'["telegram"] = C32_StateOfCommand[unit'.cmd]
                    /\ unit'.calls = 1
               ELSE /\ pc'["telegram"] \in {"idle", "gs_take"}
                    /\ arg'["telegram"] = NO_ARG
                    /\ unit'.calls = 0
       /\ (pc["telegram"] = "ss_ret" /\ pc'["telegram"] # "ss_ret")
            => /\ pc'["telegram"] = "idle"
               /\ unit'.calls = 1
               /\ ~ret["telegram"] => unit'.reply = "failed"
               /\ ret["telegram"] => unit'.reply = "done"
       /\ (/\ unit'.op = "command" /\ unit'.cmd \notin DOMAIN C32_StateOfCommand
           /\ (pc'["telegram"] # pc["telegram"] \/ unit' # unit))
            => /\ pc'["telegram"] \notin {"ss_take", "ss_apply", "ss_write", "ss_give", "ss_ret"}
               /\ s_status'.state = s_status.state
               /\ s_relay_states' = s_relay_states
      ]_vars

\* C32 witness: /high has been answered with the failure text, its one
\* crockpot_set_state(HIGH) call having timed out on the lock, with the
\* state still OFF.
C32_Witness ==
    /\ unit.op = "command" /\ unit.cmd = CMD_high
    /\ unit.calls = 1 /\ unit.state = CROCKPOT_HIGH
    /\ unit.reply = "failed"
    /\ pc["telegram"] = "idle"
    /\ s_status.state = CROCKPOT_OFF /\ ~MainRelayOn

\* C34: liveness of the over-temperature interlock.  With the control task
\* scheduled fairly and every sample valid and above 300.0 F, the snapshot
\* state is OFF with the relay off again and again, and every non-OFF
\* state that crockpot_set_state establishes is followed by OFF with the
\* relay off.
C34_OverTempEventuallyOff ==
    /\ []<>(s_status.state = CROCKPOT_OFF /\ ~MainRelayOn)
    /\ (s_status.state # CROCKPOT_OFF)
          ~> (s_status.state = CROCKPOT_OFF /\ ~MainRelayOn)

\* C34 witness: the interlock has tripped a state that crockpot_set_state
\* had set to HIGH after an earlier over-temperature cycle.
C34_Witness ==
    /\ ctrl_pc = "c_fault"
    /\ OverTemperature(reading)
    /\ committed.state = CROCKPOT_HIGH
    /\ committed.temperature_f > CROCKPOT_SAFETY_TEMP_F
    /\ s_status.state = CROCKPOT_OFF /\ ~MainRelayOn

\* C33: the control loop never energises the heater.  No step of the
\* control task changes the snapshot state to a non-OFF value or switches a
\* relay output on; the only state change it makes is non-OFF -> OFF at one
\* of its two interlocks; and every other change of the snapshot state is
\* the write of a crockpot_set_state call.
C33_ControlLoopNeverEnergises ==
    [][/\ (ctrl_pc' # ctrl_pc)
            => /\ \A c \in Channels : s_relay_states'[c] => s_relay_states[c]
               /\ (s_status'.state # s_status.state)
                     => /\ s_status.state # CROCKPOT_OFF
                        /\ s_status'.state = CROCKPOT_OFF
                        /\ ctrl_pc \in {"c_overtemp", "c_fault"}
       /\ (ctrl_pc' = ctrl_pc /\ s_status'.state # s_status.state)
            => \E t \in Callers :
                  /\ pc[t] = "ss_write" /\ pc'[t] = "ss_give"
                  /\ mutex_owner = t
                  /\ s_status'.state = arg[t]
      ]_vars

\* C33 witness: the fault interlock has just changed the state from HIGH
\* to OFF and is about to switch the relay off.
C33_Witness ==
    /\ ctrl_pc = "c_fault_off"
    /\ committed.state = CROCKPOT_HIGH
    /\ s_status.state = CROCKPOT_OFF
    /\ s_status.sensor_error
    /\ MainRelayOn

\* the positions of a caller between its xSemaphoreTake and xSemaphoreGive
C36_CallerInside == {"gs_copy", "ss_apply", "ss_write", "ss_give", "ss_give_fail"}

\* the positions of the control task between its xSemaphoreTake and
\* xSemaphoreGive
C36_ControlInside ==
    {"c_temp", "c_err_clear", "c_uptime", "c_wifi", "c_overtemp",
     "c_overtemp_off", "c_fault", "c_fault_off", "c_give"}

\* C36: the state mutex is always released.  A context holds it only
\* between its own take and give: after every return of
\* crockpot_get_status and crockpot_set_state (success, failed actuation,
\* lock timeout) and at the end of every control-loop cycle the context
\* does not hold it.  The mutex is given only by the context that took it,
\* taken only when free, and whoever holds it can always take its next step
\* towards the give, so that nobody is locked out for good.
C36_MutexAlwaysReleased ==
    /\ [](\A t \in Callers : (mutex_owner = t) <=> (pc[t] \in C36_CallerInside))
    /\ []((mutex_owner = CONTROL) <=> (ctrl_pc \in C36_ControlInside))
    /\ [](\A t \in Callers :
             mutex_owner = t
                => ENABLED (\/ get_status_copy_give(t) \/ set_state_apply(t)
                            \/ set_state_write(t) \/ set_state_give(t)))
    /\ [](mutex_owner = CONTROL
             => ENABLED (\/ control_update_temperature \/ control_clear_sensor_error
                         \/ control_update_uptime \/ control_update_wifi({FALSE})
                         \/ control_overtemp_check \/ control_overtemp_all_off
                         \/ control_fault_check \/ control_fault_all_off
                         \/ control_give(0)))
    /\ [][/\ (mutex_owner' # mutex_owner)
               => (mutex_owner = NO_OWNER \/ mutex_owner' = NO_OWNER)
          /\ \A t \in Callers :
                (mutex_owner = t /\ mutex_owner' # t)
                   => (pc[t] \in {"gs_copy", "ss_give", "ss_give_fail"}
                       /\ pc'[t] \in {"gs_ret", "ss_ret"})
          /\ (mutex_owner = CONTROL /\ mutex_owner' # CONTROL)
                => (ctrl_pc = "c_give" /\ ctrl_pc' = "c_delay")
         ]_vars

\* C36 witness: crockpot_set_state has returned false after a failed
\* actuation, having given the mutex back, and the control task has
\* taken it since.
C36_Witness ==
    /\ pc["telegram"] = "ss_ret" /\ ~ret["telegram"]
    /\ s_status.state = CROCKPOT_HIGH
    /\ ~MainRelayOn
    /\ mutex_owner = CONTROL

\* C37: a control-loop cycle whose xSemaphoreTake times out changes
\* nothing: every field of the snapshot, the relay outputs and pins and the
\* fault counter keep their values, the mutex stays with its holder, the
\* sample of the cycle is dropped without an interlock being evaluated, and
\* the next thing the loop does is wait for its next period and read again.
C37_SkippedCycleChangesNothing ==
    [][/\ (ctrl_pc = "c_take" /\ ctrl_pc' # "c_take" /\ mutex_owner # NO_OWNER)
            => /\ ctrl_pc' = "c_delay_skipped"
               /\ s_status' = s_status
               /\ s_relay_states' = s_relay_states
               /\ gpio_level' = gpio_level
               /\ error_count' = error_count
               /\ mutex_owner' = mutex_owner
               /\ reading' = InvalidReading
       /\ (ctrl_pc = "c_delay_skipped" /\ ctrl_pc' # "c_delay_skipped")
            => /\ ctrl_pc' = "c_read"
               /\ UNCHANGED <<s_status, s_relay_states, gpio_level, error_count>>
      ]_vars

\* C37 witness: a cycle has been skipped while the telegram task held the
\* mutex in a crockpot_set_state(HIGH) call, with the element on, a sensor
\* error in the snapshot and five faults counted.
C37_Witness ==
    /\ ctrl_pc = "c_delay_skipped"
    /\ mutex_owner = "telegram"
    /\ s_status.state = CROCKPOT_HIGH /\ MainRelayOn
    /\ s_status.sensor_error
    /\ error_count = 5

C39_WifiGivesUpAfterMaxRetry ==
    /\ [](unit.retry_count \in 0..5)
    /\ [][/\ unit'.event = "WIFI_EVENT_STA_DISCONNECTED" /\ unit.retry_count < 5
               => /\ unit'.retry_count = unit.retry_count + 1
                  /\ unit'.status = "WIFI_STATUS_CONNECTING"
                  /\ unit'.connects = unit.connects + 1
          /\ unit'.event = "WIFI_EVENT_STA_DISCONNECTED" /\ unit.retry_count >= 5
               => /\ unit'.retry_count = unit.retry_count
                  /\ unit'.status = "WIFI_STATUS_ERROR"
                  /\ unit'.connects = unit.connects
          /\ unit'.event = "IP_EVENT_STA_GOT_IP"
               => /\ unit'.retry_count = 0
                  /\ unit'.status = "WIFI_STATUS_CONNECTED"
                  /\ unit'.connects = unit.connects
         ]_vars

\* C39 witness: after a connection and a start event, six disconnect events
\* in a row: five reconnects were issued and the sixth event gave up.
C39_Witness ==
    /\ unit.op = "wifi"
    /\ unit.event = "WIFI_EVENT_STA_DISCONNECTED"
    /\ unit.status = "WIFI_STATUS_ERROR"
    /\ unit.retry_count = WIFI_MAX_RETRY
    /\ unit.connects = 6
    /\ unit.bits = {"WIFI_CONNECTED_BIT", "WIFI_FAIL_BIT"}

====
